---- MODULE Spec2Model ----
(***************************************************************************)
(* The three-stage work pipeline of onthespot: the Intake (parsing),       *)
(* Pending and Download maps of runtimedata.py, each an insertion-ordered  *)
(* dict guarded by one RLock and one Condition, the Enricher workers       *)
(* (web.py, QueueWorker.run), the Downloader workers that claim records    *)
(* with acquire_next_download_item, and the web UI's status operations.    *)
(*                                                                         *)
(* A dict is a sequence of entries [key, item] in iteration order.  Every  *)
(* block of code run under a stage's lock is one atomic action; a          *)
(* Condition.wait() splits the block in two (the lock is released while    *)
(* the caller waits).                                                      *)
(*                                                                         *)
(* Besides the whole pipeline (Spec) there are specifications of its       *)
(* parts: the StageQueue functions called directly with every block and    *)
(* timeout (QueueSpec, PushSpec), the Enrichers with every outcome of a    *)
(* cycle (FairEnricherSpec), the Download stage with its claimants and the *)
(* requests of the UIs (FairDownloadSpec, UiSpec), acquire called with     *)
(* every block and timeout (AcquireSpec), the pushes beside blocked        *)
(* callers (NotifySpec, FairPendingSpec), and the Throttle of stealth.py   *)
(* over its stats file, its settings and the wall clock (ThrottleSpec,     *)
(* DelaySpec).                                                             *)
(***************************************************************************)
EXTENDS Integers, Sequences, FiniteSets, TLC

\* ---------------------------------------------------------------- bounds
MaxKeys == 2
\* Ticks of the monotonic clock, longest timeout a caller passes, and pushes
\* made by the callers of the StageQueue functions
MaxTime == 2
MaxTimeout == 2
MaxPushes == 2
\* Longest session break (minutes) and longest delay (seconds) in the
\* settings, and longest song (ms) a delay is asked for
MaxMinutes == 2
MaxDelay == 2
MaxDuration == 2
\* Days and hours per day of the wall clock, and downloads counted per day
MaxDays == 2
HoursPerDay == 2
MaxTracks == 2

\* ------------------------------------------------------------- constants
Resolvers   == {"r1"}
Enrichers   == {"q1", "q2"}
Downloaders == {"d1", "d2"}
Workers     == Resolvers \cup Enrichers \cup Downloaders
\* Threads that call the StageQueue functions of runtimedata.py directly
Callers     == {"c1", "c2"}

\* The URL submitted under each key (one distinct URL per key)
Urls     == <<"u1", "u2", "u3", "u4">>
None     == "None"
\* Python's None for a key is 0 (keys are 1, 2, ...), for an item NoItem
NoItem   == [item_id |-> None]
NoEntry  == [key |-> 0, item |-> NoItem]
NoLocal  == [key |-> 0, item |-> NoItem, result |-> None]

Stages == {"parsing", "pending", "download_queue"}

\* The frame of a caller that is not inside a pop
NoCall == [stage |-> None, block |-> FALSE, timed |-> FALSE, timeout |-> 0,
           entry |-> 0, deadline |-> 0, wake |-> 0]
\* A stats dict with nothing in it, the stats file before it is first
\* written, and the value of `returned` before any Throttle call
NoStats == [date |-> 0, tracks_today |-> 0, tracks_this_hour |-> 0, hour |-> 0,
            session_tracks |-> 0, last_download_time |-> 0]
NoFile == [kind |-> "missing", data |-> NoStats]
NoReturn == [op |-> None, value |-> NoStats]

\* No request has touched a map yet; no request is being served
NoAccess == [op |-> None, unlocked |-> {}]
NoUi == [op |-> None, local_id |-> 0]

\* A setting read as a number: a number, or a text float() cannot convert
Number(n) == [kind |-> "number", value |-> n]
NotANumber == [kind |-> "text", value |-> 0]
\* The settings the Throttle reads, with the values config.get falls back on
DefaultConfig == [stealth_mode_enabled |-> FALSE,
                  download_delay |-> 3,
                  stealth_min_delay |-> Number(30),
                  stealth_session_break_tracks |-> 15,
                  stealth_session_break_minutes |-> 5,
                  stealth_max_tracks_per_hour |-> 20,
                  stealth_max_tracks_per_day |-> 100]
\* The service whose downloads stealth mode paces, and another one
Services == {"apple_music", "spotify"}

VARIABLES
    parsing,         \* Intake map
    pending,         \* Pending map
    download_queue,  \* Download map
    waiters,         \* per stage, the workers blocked in Condition.wait(), oldest first
    issued,          \* number of ItemKeys handed out so far
    pc,              \* each worker's position in its loop
    local,           \* each worker's local variables (local_id, item)
    stale,           \* Downloader: the dict it holds is no longer the one in the map
    now,             \* time.monotonic(), in ticks
    call,            \* each API caller's call frame (arguments, deadline)
    access,          \* the last request served and the maps it touched without their lock
    ui,              \* the request being served (route and local_id)
    stats_file,      \* content of STATS_FILE (stealth_stats.json)
    clock,           \* wall clock: date.today() and datetime.now().hour
    returned,        \* what the last Throttle call returned
    config           \* the settings the Throttle reads with config.get

\* Variables of the StageQueue callers, the web requests and the Throttle
aux == <<now, call, access, ui, stats_file, clock, returned, config>>

vars == <<parsing, pending, download_queue, waiters, issued, pc, local, stale, aux>>

\* ------------------------------------------------- insertion-ordered dict
Keys(q) == {q[i].key : i \in 1..Len(q)}

HasKey(q, k) == \E i \in 1..Len(q) : q[i].key = k

IndexOf(q, k) == CHOOSE i \in 1..Len(q) : q[i].key = k

Lookup(q, k) == q[IndexOf(q, k)].item

\* Variant: the assignment always adds an entry, also for a key already there
SetItem_Append(q, k, it) == Append(q, [key |-> k, item |-> it])

\* q[k] = it : replaces in place when k is present, appends otherwise
SetItem(q, k, it) ==
    IF HasKey(q, k)
    THEN [q EXCEPT ![IndexOf(q, k)].item = it]
    ELSE Append(q, [key |-> k, item |-> it])

\* ------------------------------------------------------ Condition objects
\* Condition.notify(): the oldest waiter, if any, leaves the wait set ...
AfterNotify(ws) == IF ws = <<>> THEN ws ELSE Tail(ws)

\* Variant: notify_all(), every waiter becomes runnable
Woken_All(p, ws) ==
    [w \in DOMAIN p |-> IF \E i \in 1..Len(ws) : ws[i] = w THEN "woken" ELSE p[w]]
\* Variant: the waiter leaves the wait set and is never made runnable
Woken_Nobody(p, ws) == p
\* ... and becomes runnable: it will re-take the lock and re-test its loop
Woken(p, ws) == IF ws = <<>> THEN p ELSE [p EXCEPT ![Head(ws)] = "woken"]

\* ------------------------------------------------------------ StageQueue
\* Variant: the test of `block` is missing, an empty map always means a wait
MustWait_Always(q, block) == q = <<>>

\* At the call: `if not q: if not block: return None, None`, else wait
MustWait(q, block) == q = <<>> /\ block

\* Variant: an `if` where the `while` is, the woken popper does not re-test
WaitAgain_Never(q) == FALSE

\* After a wake-up: the test of `while not q:`
WaitAgain(q) == q = <<>>

\* Variant: `q[item_id]` where `q.pop(item_id)` is, the entry stays in the map
PopFirst_NoRemove(q) ==
    IF q = <<>>
    THEN [entry |-> NoEntry, rest |-> q]
    ELSE [entry |-> Head(q), rest |-> q]

\* Variant: the entry inserted last is the one taken
PopFirst_Last(q) ==
    IF q = <<>>
    THEN [entry |-> NoEntry, rest |-> q]
    ELSE [entry |-> q[Len(q)], rest |-> SubSeq(q, 1, Len(q) - 1)]

\* `item_id = next(iter(q)); return item_id, q.pop(item_id)`, and the
\* (None, None) of a pop that found the map empty and did not wait
PopFirst(q) ==
    IF q = <<>>
    THEN [entry |-> NoEntry, rest |-> q]
    ELSE [entry |-> Head(q), rest |-> Tail(q)]

\* Whole pop under the stage's lock, by worker w at its call or after a wake-up
PopStage(stage, q, w, block) ==
    IF (IF pc[w] = "woken" THEN WaitAgain(q) ELSE MustWait(q, block))
    THEN /\ waiters' = [waiters EXCEPT ![stage] = Append(@, w)]
         /\ pc' = [pc EXCEPT ![w] = "wait"]
         /\ UNCHANGED local
         /\ q' = q
    ELSE /\ q' = PopFirst(q).rest
         /\ local' = [local EXCEPT ![w] = [NoLocal EXCEPT !.key = PopFirst(q).entry.key,
                                                       !.item = PopFirst(q).entry.item]]
         /\ pc' = [pc EXCEPT ![w] = "popped"]
         /\ UNCHANGED waiters

pop_next_parsing_item(w, block) ==
    /\ PopStage("parsing", parsing, w, block)
    /\ UNCHANGED <<pending, download_queue, issued, stale, aux>>

pop_next_pending_item(w, block) ==
    /\ PopStage("pending", pending, w, block)
    /\ UNCHANGED <<parsing, download_queue, issued, stale, aux>>

\* p is the pc function after the caller's own move
enqueue_parsing_item(item_id, item, p) ==
    /\ parsing' = SetItem(parsing, item_id, item)
    /\ waiters' = [waiters EXCEPT !.parsing = AfterNotify(@)]
    /\ pc' = Woken(p, waiters.parsing)

enqueue_pending_item(local_id, item, p) ==
    /\ pending' = SetItem(pending, local_id, item)
    /\ waiters' = [waiters EXCEPT !.pending = AfterNotify(@)]
    /\ pc' = Woken(p, waiters.pending)

\* Variant: the requeue stores an emptied record under the key
requeue_pending_item_Blank(local_id, item, p) ==
    /\ pending' = SetItem(pending, local_id, NoItem)
    /\ waiters' = [waiters EXCEPT !.pending = AfterNotify(@)]
    /\ pc' = Woken(p, waiters.pending)

\* Variant: the requeued entry goes in front of the entries of Pending
requeue_pending_item_Front(local_id, item, p) ==
    /\ pending' = <<[key |-> local_id, item |-> item]>> \o
                     SelectSeq(pending, LAMBDA e : e.key # local_id)
    /\ waiters' = [waiters EXCEPT !.pending = AfterNotify(@)]
    /\ pc' = Woken(p, waiters.pending)

requeue_pending_item(local_id, item, p) ==
    /\ pending' = SetItem(pending, local_id, item)
    /\ waiters' = [waiters EXCEPT !.pending = AfterNotify(@)]
    /\ pc' = Woken(p, waiters.pending)

\* A Downloader that took the record under local_id and has not released it
Holds(w, local_id) ==
    /\ w \in Downloaders
    /\ pc[w] \in {"claimed", "transfer"}
    /\ local[w].key = local_id

\* Variant: the record is placed by its key, before every larger key
add_to_download_queue_Sorted(local_id, item, p) ==
    /\ download_queue' =
          SelectSeq(download_queue, LAMBDA e : e.key < local_id) \o
          <<[key |-> local_id, item |-> item]>> \o
          SelectSeq(download_queue, LAMBDA e : e.key > local_id)
    /\ waiters' = [waiters EXCEPT !.download_queue = AfterNotify(@)]
    /\ pc' = Woken(p, waiters.download_queue)
    /\ stale' = [w \in Downloaders |-> stale[w] \/ Holds(w, local_id)]

\* Variant: the record is placed in front of the records of Download
add_to_download_queue_Front(local_id, item, p) ==
    /\ download_queue' = <<[key |-> local_id, item |-> item]>> \o
                            SelectSeq(download_queue, LAMBDA e : e.key # local_id)
    /\ waiters' = [waiters EXCEPT !.download_queue = AfterNotify(@)]
    /\ pc' = Woken(p, waiters.download_queue)
    /\ stale' = [w \in Downloaders |-> stale[w] \/ Holds(w, local_id)]

add_to_download_queue(local_id, item, p) ==
    /\ download_queue' = SetItem(download_queue, local_id, item)
    /\ waiters' = [waiters EXCEPT !.download_queue = AfterNotify(@)]
    /\ pc' = Woken(p, waiters.download_queue)
    \* a replaced dict is no longer the object its claimant holds
    /\ stale' = [w \in Downloaders |-> stale[w] \/ Holds(w, local_id)]

\* Variant: the scan does not test 'available' and takes the first entry
AcquireIndex_IgnoreFlag(q) == IF q = <<>> THEN 0 ELSE 1

\* The scan of acquire_next_download_item: index of the first entry whose
\* 'available' is not False, 0 when the iterator is exhausted
AcquireIndex(q) ==
    IF \E i \in 1..Len(q) : q[i].item.available # FALSE
    THEN CHOOSE i \in 1..Len(q) :
            /\ q[i].item.available # FALSE
            /\ \A j \in 1..(i - 1) : q[j].item.available = FALSE
    ELSE 0

\* Variant: the flag is cleared on every entry, not only on the one returned
AcquireMark_All(q, i) == [j \in 1..Len(q) |-> [q[j] EXCEPT !.item.available = FALSE]]

\* `item['available'] = False; return item`
AcquireMark(q, i) == [q EXCEPT ![i].item.available = FALSE]

\* ---------------------------------------------------------------- Init
\* No direct caller, no web request in progress, no stats file yet
AuxInit ==
    /\ now = 0
    /\ call = [c \in Callers |-> NoCall]
    /\ access = NoAccess
    /\ ui = NoUi
    /\ stats_file = NoFile
    /\ clock = [date |-> 1, hour |-> 0]
    /\ returned = NoReturn
    /\ config = DefaultConfig

Init ==
    /\ AuxInit
    /\ parsing = <<>>
    /\ pending = <<>>
    /\ download_queue = <<>>
    /\ waiters = [s \in Stages |-> <<>>]
    /\ issued = 0
    /\ pc = [w \in Workers |-> IF w \in Downloaders THEN "idle" ELSE "pop"]
    /\ local = [w \in Workers |-> NoLocal]
    /\ stale = [w \in Downloaders |-> FALSE]

\* ------------------------------------------------- enqueueIntake (UI side)
\* A new item enters Intake under a key never used before
EnqueueIntake ==
    /\ issued < MaxKeys
    /\ issued' = issued + 1
    /\ enqueue_parsing_item(issued + 1, [url |-> Urls[issued + 1]], pc)
    /\ UNCHANGED <<pending, download_queue, local, stale, aux>>

\* -------------------------------------------------------------- Resolver
ResolverPop(r) ==
    /\ pc[r] \in {"pop", "woken"}
    /\ pop_next_parsing_item(r, TRUE)

\* The descriptor resolved to one item, pushed into Pending under its key
ResolverPush(r) ==
    /\ pc[r] = "popped"
    /\ enqueue_pending_item(local[r].key, [item_id |-> local[r].item.url],
                            [pc EXCEPT ![r] = "pop"])
    /\ local' = [local EXCEPT ![r] = NoLocal]
    /\ UNCHANGED <<parsing, download_queue, issued, stale, aux>>

\* Resolution failed: logged, the item is dropped
ResolverDrop(r) ==
    /\ pc[r] = "popped"
    /\ pc' = [pc EXCEPT ![r] = "pop"]
    /\ local' = [local EXCEPT ![r] = NoLocal]
    /\ UNCHANGED <<parsing, pending, download_queue, waiters, issued, stale, aux>>

\* The descriptor expanded to n sub-items (a playlist): each is pushed under
\* a key of its own, the parent is not
ResolverExpand(r, n) ==
    /\ pc[r] = "popped"
    /\ n \in 1..2
    /\ issued + n <= MaxKeys
    /\ issued' = issued + n
    /\ LET p1 == SetItem(pending, issued + 1, [item_id |-> Urls[issued + 1]])
           w1 == AfterNotify(waiters.pending)
           c1 == Woken([pc EXCEPT ![r] = "pop"], waiters.pending)
       IN  IF n = 1
           THEN /\ pending' = p1
                /\ waiters' = [waiters EXCEPT !.pending = w1]
                /\ pc' = c1
           ELSE /\ pending' = SetItem(p1, issued + 2, [item_id |-> Urls[issued + 2]])
                /\ waiters' = [waiters EXCEPT !.pending = AfterNotify(w1)]
                /\ pc' = Woken(c1, w1)
    /\ local' = [local EXCEPT ![r] = NoLocal]
    /\ UNCHANGED <<parsing, download_queue, stale, aux>>

\* --------------------------------------------------- Enricher (QueueWorker)
\* `local_id, item = pop_next_pending_item(block=True)`
QueueWorkerPop(w) ==
    /\ pc[w] \in {"pop", "woken"}
    /\ pop_next_pending_item(w, TRUE)

\* get_account_token and <service>_get_<type>_metadata: what the
\* collaborators hand back to the worker
Results == {"metadata", "falsy", "raise"}

\* `if item is None: continue`, else the collaborator calls
QueueWorkerFetch(w, res) ==
    /\ pc[w] = "popped"
    /\ IF local[w].item = NoItem
       THEN /\ pc' = [pc EXCEPT ![w] = "pop"]
            /\ local' = [local EXCEPT ![w] = NoLocal]
       ELSE /\ pc' = [pc EXCEPT ![w] = "fetched"]
            /\ local' = [local EXCEPT ![w].result = res]
    /\ UNCHANGED <<parsing, pending, download_queue, waiters, issued, stale, aux>>

\* Variant: the record is built already claimed
DownloadItem_Unavailable(local_id, item) ==
    [local_id    |-> local_id,
     available   |-> FALSE,
     item_id     |-> item.item_id,
     item_status |-> "Waiting",
     file_path   |-> None,
     progress    |-> 0]

\* The download_item dict built from the Pending item and its metadata
DownloadItem(local_id, item) ==
    [local_id    |-> local_id,
     available   |-> TRUE,
     item_id     |-> item.item_id,
     item_status |-> "Waiting",
     file_path   |-> None,
     progress    |-> 0]

\* Variant: the item is put back into Pending on the success path too
QueueWorkerSuccess_AlsoRequeue(w) ==
    /\ add_to_download_queue(local[w].key, DownloadItem(local[w].key, local[w].item),
                             [pc EXCEPT ![w] = "done"])
    /\ pending' = SetItem(pending, local[w].key, local[w].item)

\* `if item_metadata: ... add_to_download_queue(local_id, download_item)`
QueueWorkerSuccess(w) ==
    /\ add_to_download_queue(local[w].key, DownloadItem(local[w].key, local[w].item),
                             [pc EXCEPT ![w] = "done"])
    /\ UNCHANGED pending

\* A falsy item_metadata: the `if` is skipped and the loop goes on
QueueWorkerSkip(w) ==
    /\ pc' = [pc EXCEPT ![w] = "done"]
    /\ UNCHANGED <<pending, download_queue, waiters, stale>>

\* Variant: the handler logs and does not requeue
QueueWorkerExcept_Drop(w) ==
    /\ pc' = [pc EXCEPT ![w] = "done"]
    /\ UNCHANGED <<pending, download_queue, waiters, stale>>

\* Variant: no handler, the exception leaves run() and the thread ends
QueueWorkerExcept_Uncaught(w) ==
    /\ pc' = [pc EXCEPT ![w] = "terminated"]
    /\ UNCHANGED <<pending, download_queue, waiters, stale>>

\* Variant: the handler gives up and files the item as Failed in Download
QueueWorkerExcept_Fail(w) ==
    /\ add_to_download_queue(local[w].key,
                             [DownloadItem(local[w].key, local[w].item)
                                EXCEPT !.item_status = "Failed"],
                             [pc EXCEPT ![w] = "done"])
    /\ UNCHANGED pending

\* `except Exception: ... requeue_pending_item(local_id, item)`
QueueWorkerExcept(w) ==
    /\ requeue_pending_item(local[w].key, local[w].item, [pc EXCEPT ![w] = "done"])
    /\ UNCHANGED <<download_queue, stale>>

QueueWorkerFinish(w) ==
    /\ pc[w] = "fetched"
    /\ CASE local[w].result = "metadata" -> QueueWorkerSuccess(w)
         [] local[w].result = "falsy"    -> QueueWorkerSkip(w)
         [] OTHER                        -> QueueWorkerExcept(w)
    /\ UNCHANGED <<parsing, issued, local, aux>>

\* Top of the `while True` loop: `local_id = None; item = None`
QueueWorkerLoop(w) ==
    /\ pc[w] = "done"
    /\ pc' = [pc EXCEPT ![w] = "pop"]
    /\ local' = [local EXCEPT ![w] = NoLocal]
    /\ UNCHANGED <<parsing, pending, download_queue, waiters, issued, stale, aux>>

\* ------------------------------------------------------------ Downloader
\* acquire_next_download_item() on a non-empty or empty map, without waiting
DownloadWorkerAcquire(w) ==
    /\ pc[w] = "idle"
    /\ LET i == AcquireIndex(download_queue)
       IN  IF i = 0
           THEN UNCHANGED <<download_queue, pc, local, stale>>
           ELSE /\ download_queue' = AcquireMark(download_queue, i)
                /\ pc' = [pc EXCEPT ![w] = "claimed"]
                /\ local' = [local EXCEPT ![w] = [NoLocal EXCEPT !.key = download_queue[i].key]]
                /\ stale' = [stale EXCEPT ![w] = FALSE]
    /\ UNCHANGED <<parsing, pending, waiters, issued, aux>>

\* The claimant writes into the dict it holds: that is the map's record
\* unless the record was replaced or removed meanwhile
WriteHeld(w, item) ==
    IF stale[w] \/ ~HasKey(download_queue, local[w].key)
    THEN UNCHANGED download_queue
    ELSE download_queue' = SetItem(download_queue, local[w].key, item)

HeldItem(w) == Lookup(download_queue, local[w].key)

\* A claimed record that is Waiting starts its transfer; one in any other
\* status (cancelled, done) is given back untouched
DownloadWorkerStart(w) ==
    /\ pc[w] = "claimed"
    /\ IF stale[w] \/ ~HasKey(download_queue, local[w].key)
       THEN /\ pc' = [pc EXCEPT ![w] = "idle"]
            /\ local' = [local EXCEPT ![w] = NoLocal]
            /\ UNCHANGED download_queue
       ELSE IF HeldItem(w).item_status = "Waiting"
       THEN /\ WriteHeld(w, [HeldItem(w) EXCEPT !.item_status = "Downloading"])
            /\ pc' = [pc EXCEPT ![w] = "transfer"]
            /\ UNCHANGED local
       ELSE /\ WriteHeld(w, [HeldItem(w) EXCEPT !.available = TRUE])
            /\ pc' = [pc EXCEPT ![w] = "idle"]
            /\ local' = [local EXCEPT ![w] = NoLocal]
    /\ stale' = [stale EXCEPT ![w] = FALSE]
    /\ UNCHANGED <<parsing, pending, waiters, issued, aux>>

FinalStatuses == {"Downloaded", "Failed", "Unavailable"}

\* End of the transfer, on every exit path: a terminal status is set and
\* 'available' is restored; a cancellation seen meanwhile is kept
DownloadWorkerFinish(w, st) ==
    /\ pc[w] = "transfer"
    /\ st \in FinalStatuses
    /\ IF stale[w] \/ ~HasKey(download_queue, local[w].key)
       THEN UNCHANGED download_queue
       ELSE IF HeldItem(w).item_status = "Cancelled"
       THEN WriteHeld(w, [HeldItem(w) EXCEPT !.available = TRUE])
       ELSE WriteHeld(w, [HeldItem(w) EXCEPT !.available = TRUE, !.item_status = st])
    /\ pc' = [pc EXCEPT ![w] = "idle"]
    /\ local' = [local EXCEPT ![w] = NoLocal]
    /\ stale' = [stale EXCEPT ![w] = FALSE]
    /\ UNCHANGED <<parsing, pending, waiters, issued, aux>>

\* ------------------------------------------------------- web UI (web.py)
SetStatus(q, k, st) == SetItem(q, k, [Lookup(q, k) EXCEPT !.item_status = st])

\* POST /api/cancel/<local_id>
cancel_item(local_id) ==
    /\ HasKey(download_queue, local_id)
    /\ download_queue' = SetStatus(download_queue, local_id, "Cancelled")
    /\ UNCHANGED <<parsing, pending, waiters, issued, pc, local, stale, aux>>

\* POST /api/retry/<local_id>
retry_item(local_id) ==
    /\ HasKey(download_queue, local_id)
    /\ download_queue' = SetStatus(download_queue, local_id, "Waiting")
    /\ UNCHANGED <<parsing, pending, waiters, issued, pc, local, stale, aux>>

\* Variant: a failed download counts as completed too
ClearedStatuses_WithFailed ==
    {"Downloaded", "Already Exists", "Cancelled", "Unavailable", "Deleted", "Failed"}

ClearedStatuses == {"Downloaded", "Already Exists", "Cancelled", "Unavailable", "Deleted"}

\* POST /api/clear_items
clear_items ==
    /\ download_queue' = SelectSeq(download_queue,
                                   LAMBDA e : e.item.item_status \notin ClearedStatuses)
    /\ UNCHANGED <<parsing, pending, waiters, issued, pc, local, stale, aux>>

\* Variant: the test of the status is missing, every item is rewritten
MapStatus_Any(q, from, to) ==
    [i \in 1..Len(q) |-> [q[i] EXCEPT !.item.item_status = to]]

\* A sequence with one field of every item rewritten
MapStatus(q, from, to) ==
    [i \in 1..Len(q) |->
        IF q[i].item.item_status \in from
        THEN [q[i] EXCEPT !.item.item_status = to]
        ELSE q[i]]

\* POST /api/cancel_items
cancel_items ==
    /\ parsing' = <<>>
    /\ pending' = <<>>
    /\ download_queue' = MapStatus(download_queue, {"Waiting"}, "Cancelled")
    /\ UNCHANGED <<waiters, issued, pc, local, stale, aux>>

\* POST /api/retry_items
retry_items ==
    /\ download_queue' = MapStatus(download_queue, {"Failed", "Cancelled"}, "Waiting")
    /\ UNCHANGED <<parsing, pending, waiters, issued, pc, local, stale, aux>>

\* ------------------------------------------------------------------ Next
Next ==
    \/ EnqueueIntake
    \/ \E r \in Resolvers : ResolverPop(r)
    \/ \E r \in Resolvers : ResolverPush(r)
    \/ \E r \in Resolvers : ResolverDrop(r)
    \/ \E r \in Resolvers, n \in 1..2 : ResolverExpand(r, n)
    \/ \E w \in Enrichers : QueueWorkerPop(w)
    \/ \E w \in Enrichers, res \in Results : QueueWorkerFetch(w, res)
    \/ \E w \in Enrichers : QueueWorkerFinish(w)
    \/ \E w \in Enrichers : QueueWorkerLoop(w)
    \/ \E w \in Downloaders : DownloadWorkerAcquire(w)
    \/ \E w \in Downloaders : DownloadWorkerStart(w)
    \/ \E w \in Downloaders, st \in FinalStatuses : DownloadWorkerFinish(w, st)
    \/ \E k \in 1..MaxKeys : cancel_item(k)
    \/ \E k \in 1..MaxKeys : retry_item(k)
    \/ clear_items
    \/ cancel_items
    \/ retry_items

Spec == Init /\ [][Next]_vars

\* ------------------------------------------- Download stage used directly
\* add_to_download_queue called for a key the stage already holds (the
\* "replace" of its docstring), with a record as the Enricher builds it
ReAddToDownloadQueue(local_id) ==
    /\ HasKey(download_queue, local_id)
    /\ add_to_download_queue(local_id,
                             DownloadItem(local_id, [item_id |-> Urls[local_id]]), pc)
    /\ UNCHANGED <<parsing, pending, issued, local, aux>>

NextApi ==
    \/ Next
    \/ \E k \in 1..MaxKeys : ReAddToDownloadQueue(k)

SpecApi == Init /\ [][NextApi]_vars

\* ------------------------------------- Download stage with its claimants
\* The Download stage once the Enrichers have filled it with n records and
\* gone back to wait, and the Downloaders and the UI working on it
SeededQueue(n) ==
    [i \in 1..n |-> [key |-> i, item |-> DownloadItem(i, [item_id |-> Urls[i]])]]

DownloadInit ==
    /\ AuxInit
    /\ parsing = <<>>
    /\ pending = <<>>
    /\ \E n \in 1..MaxKeys : download_queue = SeededQueue(n) /\ issued = n
    /\ waiters = [s \in Stages |-> <<>>]
    /\ pc = [w \in Workers |-> IF w \in Downloaders THEN "idle" ELSE "pop"]
    /\ local = [w \in Workers |-> NoLocal]
    /\ stale = [w \in Downloaders |-> FALSE]

DownloadNext ==
    \/ \E w \in Downloaders : DownloadWorkerAcquire(w)
    \/ \E w \in Downloaders : DownloadWorkerStart(w)
    \/ \E w \in Downloaders, st \in FinalStatuses : DownloadWorkerFinish(w, st)
    \/ \E k \in 1..MaxKeys : cancel_item(k)
    \/ \E k \in 1..MaxKeys : retry_item(k)
    \/ clear_items
    \/ cancel_items
    \/ retry_items

\* A Downloader thread that holds a record keeps running: it gets to look
\* at the record, and its transfer ends (in a result or an exception)
DownloadFairness ==
    \A w \in Downloaders :
        /\ WF_vars(DownloadWorkerStart(w))
        /\ WF_vars(\E st \in FinalStatuses : DownloadWorkerFinish(w, st))

FairDownloadSpec == DownloadInit /\ [][DownloadNext]_vars /\ DownloadFairness

\* The Downloader threads alone over a seeded Download stage: each keeps
\* calling acquire_next_download_item, and what it has claimed it gives back.
ClaimNext ==
    \/ \E w \in Downloaders : DownloadWorkerAcquire(w)
    \/ \E w \in Downloaders : DownloadWorkerStart(w)
    \/ \E w \in Downloaders, st \in FinalStatuses : DownloadWorkerFinish(w, st)

\* Every Downloader thread keeps running, its calls of acquire included
ClaimFairness ==
    \A w \in Downloaders :
        /\ WF_vars(DownloadWorkerAcquire(w))
        /\ WF_vars(DownloadWorkerStart(w))
        /\ WF_vars(\E st \in FinalStatuses : DownloadWorkerFinish(w, st))

FairClaimSpec == DownloadInit /\ [][ClaimNext]_vars /\ ClaimFairness

\* ------------------------------------- StageQueue functions called directly
\* pop_next_parsing_item / pop_next_pending_item with every combination of
\* block and timeout, and the push functions of the two stages, called by
\* threads of their own while the monotonic clock advances.
PopStages == {"parsing", "pending"}

StageMap(stage) ==
    CASE stage = "parsing" -> parsing
      [] stage = "pending" -> pending
      [] OTHER             -> download_queue

\* Variant: every re-wait is given the whole timeout again
Remaining_Renewed(c) == c.timeout

\* `remaining = deadline - time.monotonic()`
Remaining(c) == c.deadline - now

\* `if timeout is not None: ... if remaining <= 0: return None, None`
Expired(c) == c.timed /\ Remaining(c) <= 0

\* The frame of a blocking call that found the map empty:
\* `deadline = time.monotonic() + timeout` when a timeout was given
Frame(stage, block, timed, timeout) ==
    [stage |-> stage, block |-> block, timed |-> timed, timeout |-> timeout,
     entry |-> now, deadline |-> IF timed THEN now + timeout ELSE 0, wake |-> 0]

\* `return item_id, q.pop(item_id)`, or `return None, None` with the map empty
PopReturns(stage, q, w, c) ==
    /\ q' = PopFirst(q).rest
    /\ local' = [local EXCEPT ![w] = [NoLocal EXCEPT !.key = PopFirst(q).entry.key,
                                                  !.item = PopFirst(q).entry.item]]
    /\ pc' = [pc EXCEPT ![w] = "returned"]
    /\ call' = [call EXCEPT ![w] = c]
    /\ UNCHANGED waiters

\* `condition.wait(timeout=remaining)` or `condition.wait()`
PopWaits(stage, q, w, c) ==
    /\ waiters' = [waiters EXCEPT ![stage] = Append(@, w)]
    /\ pc' = [pc EXCEPT ![w] = "wait"]
    /\ call' = [call EXCEPT ![w] = [c EXCEPT !.wake = IF c.timed THEN now + Remaining(c) ELSE 0]]
    /\ q' = q
    /\ UNCHANGED local

\* One pass of the function under the stage's lock, from the call or from a
\* wake-up, up to its return or its next wait
PopTimed(stage, q, w, c) ==
    IF (IF pc[w] = "woken" THEN WaitAgain(q) ELSE MustWait(q, c.block))
    THEN IF Expired(c)
         THEN PopReturns(stage, q, w, c)
         ELSE PopWaits(stage, q, w, c)
    ELSE PopReturns(stage, q, w, c)

PopOn(stage, w, c) ==
    /\ stage = "parsing" => PopTimed(stage, parsing, w, c) /\ UNCHANGED pending
    /\ stage = "pending" => PopTimed(stage, pending, w, c) /\ UNCHANGED parsing
    /\ UNCHANGED <<download_queue, issued, stale, now, access, ui, stats_file, clock, returned, config>>

\* The two stages share nothing, so the callers work on one at a time: a
\* stage is used while the other is empty and has nobody inside a pop
OtherStage(stage) == IF stage = "parsing" THEN "pending" ELSE "parsing"

Quiet(stage) ==
    /\ StageMap(stage) = <<>>
    /\ \A w \in Callers : call[w].stage # stage

\* A thread calls pop_next_<stage>_item(block, timeout)
PopCall(w, stage, block, timed, timeout) ==
    /\ pc[w] = "idle"
    /\ Quiet(OtherStage(stage))
    /\ timed => block
    /\ ~timed => timeout = 0
    /\ PopOn(stage, w, Frame(stage, block, timed, timeout))

\* The caller is running again after a notify or after its wait timed out
PopResume(w) ==
    /\ pc[w] = "woken"
    /\ PopOn(call[w].stage, w, call[w])

\* Condition.wait(timeout): the time given to the wait has passed
PopTimeout(w) ==
    /\ pc[w] = "wait"
    /\ call[w].timed
    /\ now >= call[w].wake
    /\ waiters' = [waiters EXCEPT ![call[w].stage] = SelectSeq(@, LAMBDA v : v # w)]
    /\ pc' = [pc EXCEPT ![w] = "woken"]
    /\ UNCHANGED <<parsing, pending, download_queue, issued, local, stale, aux>>

\* The caller has used what the pop returned
CallerDone(w) ==
    /\ pc[w] = "returned"
    /\ pc' = [pc EXCEPT ![w] = "idle"]
    /\ local' = [local EXCEPT ![w] = NoLocal]
    /\ call' = [call EXCEPT ![w] = NoCall]
    /\ UNCHANGED <<parsing, pending, download_queue, waiters, issued, stale,
                   now, access, ui, stats_file, clock, returned, config>>

\* A thread calls enqueue_parsing_item, enqueue_pending_item or
\* requeue_pending_item
PushCall(fn, k) ==
    /\ issued < MaxPushes
    /\ Quiet(IF fn = "enqueue_parsing_item" THEN "pending" ELSE "parsing")
    /\ issued' = issued + 1
    /\ CASE fn = "enqueue_parsing_item" ->
              /\ enqueue_parsing_item(k, [url |-> Urls[k]], pc)
              /\ UNCHANGED pending
         [] fn = "enqueue_pending_item" ->
              /\ enqueue_pending_item(k, [item_id |-> Urls[k]], pc)
              /\ UNCHANGED parsing
         [] OTHER ->
              /\ requeue_pending_item(k, [item_id |-> Urls[k]], pc)
              /\ UNCHANGED parsing
    /\ UNCHANGED <<download_queue, local, stale, aux>>

PushFunctions == {"enqueue_parsing_item", "enqueue_pending_item", "requeue_pending_item"}

\* time.monotonic() advances
Tick ==
    /\ now < MaxTime
    /\ now' = now + 1
    /\ UNCHANGED <<parsing, pending, download_queue, waiters, issued, pc, local, stale,
                   call, access, ui, stats_file, clock, returned, config>>

QueueInit ==
    /\ AuxInit
    /\ parsing = <<>>
    /\ pending = <<>>
    /\ download_queue = <<>>
    /\ waiters = [s \in Stages |-> <<>>]
    /\ issued = 0
    /\ pc = [w \in Workers \cup Callers |-> "idle"]
    /\ local = [w \in Workers \cup Callers |-> NoLocal]
    /\ stale = [w \in Downloaders |-> FALSE]

QueueNext ==
    \/ \E w \in Callers, stage \in PopStages, block \in BOOLEAN :
          PopCall(w, stage, block, FALSE, 0)
    \/ \E w \in Callers, stage \in PopStages, timeout \in 0..MaxTimeout :
          /\ now + timeout <= MaxTime
          /\ PopCall(w, stage, TRUE, TRUE, timeout)
    \/ \E w \in Callers : PopResume(w)
    \/ \E w \in Callers : PopTimeout(w)
    \/ \E w \in Callers : CallerDone(w)
    \/ \E fn \in PushFunctions, k \in 1..MaxKeys : PushCall(fn, k)
    \/ Tick

QueueSpec == QueueInit /\ [][QueueNext]_vars

\* The clock runs, and a caller that can run does
QueueFairness ==
    /\ WF_vars(Tick)
    /\ \A w \in Callers :
          /\ WF_vars(PopTimeout(w))
          /\ WF_vars(PopResume(w))

FairQueueSpec == QueueSpec /\ QueueFairness

\* ------------------------------------------- push functions called directly
\* enqueue_parsing_item, enqueue_pending_item, requeue_pending_item and
\* add_to_download_queue called with any key, present or not, and one of two
\* records per key, so that a replace shows.
Versions == {"a", "b"}

UpsertFunctions == PushFunctions \cup {"add_to_download_queue"}

UpsertStage(fn) ==
    CASE fn = "enqueue_parsing_item"  -> "parsing"
      [] fn = "add_to_download_queue" -> "download_queue"
      [] OTHER                        -> "pending"

PushedItem(stage, k, v) ==
    IF stage = "download_queue"
    THEN DownloadItem(k, [item_id |-> v])
    ELSE [item_id |-> v]

\* The stages share nothing: the pushers work on the stage given, the other
\* two are empty and nobody is about to push into them
OnlyStage(stage) ==
    /\ \A s \in Stages \ {stage} : StageMap(s) = <<>>
    /\ \A w \in Callers : pc[w] = "push" => UpsertStage(local[w].result) = stage

\* A thread is about to call fn(k, record)
PushBegin(w, fn, k, v) ==
    /\ pc[w] = "idle"
    /\ OnlyStage(UpsertStage(fn))
    /\ pc' = [pc EXCEPT ![w] = "push"]
    /\ local' = [local EXCEPT ![w] = [key |-> k, item |-> PushedItem(UpsertStage(fn), k, v),
                                      result |-> fn]]
    /\ UNCHANGED <<parsing, pending, download_queue, waiters, issued, stale, aux>>

\* The call itself, under the stage's lock
PushEnd(w) ==
    /\ pc[w] = "push"
    /\ LET p == [pc EXCEPT ![w] = "idle"]
       IN  CASE local[w].result = "enqueue_parsing_item" ->
                  /\ enqueue_parsing_item(local[w].key, local[w].item, p)
                  /\ UNCHANGED <<pending, download_queue, stale>>
             [] local[w].result = "enqueue_pending_item" ->
                  /\ enqueue_pending_item(local[w].key, local[w].item, p)
                  /\ UNCHANGED <<parsing, download_queue, stale>>
             [] local[w].result = "requeue_pending_item" ->
                  /\ requeue_pending_item(local[w].key, local[w].item, p)
                  /\ UNCHANGED <<parsing, download_queue, stale>>
             [] OTHER ->
                  /\ add_to_download_queue(local[w].key, local[w].item, p)
                  /\ UNCHANGED <<parsing, pending>>
    /\ UNCHANGED <<issued, local, aux>>

PushNext ==
    \/ \E w \in Callers, fn \in UpsertFunctions, k \in 1..MaxKeys, v \in Versions :
          PushBegin(w, fn, k, v)
    \/ \E w \in Callers : PushEnd(w)

PushSpec == QueueInit /\ [][PushNext]_vars

\* ------------------------------------------ Enrichers and their collaborators
\* The Enricher threads over a Pending stage that holds n items, with every
\* outcome of a cycle: metadata, a falsy result, an exception raised by
\* get_account_token or the metadata function, and metadata without one of
\* the fields read while the download_item dict is built (a KeyError)
Raised == {"raise", "incomplete"}

SeededPending(n) == [i \in 1..n |-> [key |-> i, item |-> [item_id |-> Urls[i]]]]

EnricherInit ==
    /\ AuxInit
    /\ parsing = <<>>
    /\ \E n \in 1..MaxKeys : pending = SeededPending(n) /\ issued = n
    /\ download_queue = <<>>
    /\ waiters = [s \in Stages |-> <<>>]
    /\ pc = [w \in Workers |-> IF w \in Downloaders THEN "idle" ELSE "pop"]
    /\ local = [w \in Workers |-> NoLocal]
    /\ stale = [w \in Downloaders |-> FALSE]

EnricherNext ==
    \/ \E w \in Enrichers : QueueWorkerPop(w)
    \/ \E w \in Enrichers, res \in Results \cup Raised : QueueWorkerFetch(w, res)
    \/ \E w \in Enrichers : QueueWorkerFinish(w)
    \/ \E w \in Enrichers : QueueWorkerLoop(w)

\* An Enricher thread that can run does
EnricherFairness ==
    \A w \in Enrichers :
        /\ WF_vars(QueueWorkerLoop(w))
        /\ WF_vars(QueueWorkerPop(w))

FairEnricherSpec == EnricherInit /\ [][EnricherNext]_vars /\ EnricherFairness

\* ------------------------------------------- Enrichers over doomed items
\* One or both Enricher threads over a Pending stage seeded in key order,
\* where the metadata call of some items raises on every attempt (an id
\* the service does not know) and succeeds for the others.
BrokenUrls == <<"x1", "x2", "x3", "x4">>

IsBroken(item) == \E i \in 1..Len(BrokenUrls) : BrokenUrls[i] = item.item_id

\* What the collaborators hand back for this item
Outcome(item) == IF IsBroken(item) THEN "raise" ELSE "metadata"

SeededMixed(n, broken) ==
    [i \in 1..n |-> [key |-> i,
                     item |-> [item_id |-> IF i \in broken THEN BrokenUrls[i] ELSE Urls[i]]]]

RetryInit ==
    /\ AuxInit
    /\ parsing = <<>>
    /\ \E n \in 1..MaxKeys : \E broken \in SUBSET (1..n) :
          pending = SeededMixed(n, broken) /\ issued = n
    /\ download_queue = <<>>
    /\ waiters = [s \in Stages |-> <<>>]
    /\ \E started \in {{"q1"}, Enrichers} :
          pc = [w \in Workers |-> IF w \in Downloaders THEN "idle"
                                  ELSE IF w \in started THEN "pop" ELSE "off"]
    /\ local = [w \in Workers |-> NoLocal]
    /\ stale = [w \in Downloaders |-> FALSE]

RetryNext ==
    \/ \E w \in Enrichers : QueueWorkerPop(w)
    \/ \E w \in Enrichers : QueueWorkerFetch(w, Outcome(local[w].item))
    \/ \E w \in Enrichers : QueueWorkerFinish(w)
    \/ \E w \in Enrichers : QueueWorkerLoop(w)

RetrySpec == RetryInit /\ [][RetryNext]_vars

\* An Enricher thread that can run does, and its collaborators answer
RetryFairness ==
    \A w \in Enrichers :
        /\ WF_vars(QueueWorkerPop(w))
        /\ WF_vars(QueueWorkerFetch(w, Outcome(local[w].item)))
        /\ WF_vars(QueueWorkerFinish(w))
        /\ WF_vars(QueueWorkerLoop(w))

FairRetrySpec == RetrySpec /\ RetryFairness

\* ------------------------------------------------------- get_queue_sizes
\* A thread calls get_queue_sizes while the Enrichers move the items of a
\* seeded Pending stage into Download.  The function takes and releases the
\* three conditions one after the other: three steps.
NoSizes == [parsing |-> 0, pending |-> 0, download_queue |-> 0]

\* Variant: every length is read from the Pending map
StageLen_Pending(stage) == Len(pending)
\* `with <stage>_condition: <stage>_len = len(<stage>)`
StageLen(stage) == Len(StageMap(stage))

SeededParsing(m) == [i \in 1..m |-> [key |-> i, item |-> [url |-> Urls[i]]]]

SizesRead(c, stage, from, to) ==
    /\ pc[c] = from
    /\ pc' = [pc EXCEPT ![c] = to]
    /\ local' = [local EXCEPT ![c] =
                   [key |-> 0,
                    item |-> [(IF from = "idle" THEN NoSizes ELSE local[c].item)
                                 EXCEPT ![stage] = StageLen(stage)],
                    result |-> "get_queue_sizes"]]
    /\ UNCHANGED <<parsing, pending, download_queue, waiters, issued, stale, aux>>

get_queue_sizes(c) ==
    \/ SizesRead(c, "parsing", "idle", "parsing_read")
    \/ SizesRead(c, "pending", "parsing_read", "pending_read")
    \/ SizesRead(c, "download_queue", "pending_read", "returned")

SizesInit ==
    /\ AuxInit
    /\ \E m \in 0..1 : parsing = SeededParsing(m)
    /\ \E n \in 1..MaxKeys : pending = SeededPending(n) /\ issued = n
    /\ download_queue = <<>>
    /\ waiters = [s \in Stages |-> <<>>]
    /\ pc = [w \in Workers \cup Callers |->
               IF w \in Enrichers THEN "pop" ELSE "idle"]
    /\ local = [w \in Workers \cup Callers |-> NoLocal]
    /\ stale = [w \in Downloaders |-> FALSE]

SizesNext ==
    \/ get_queue_sizes("c1")
    \/ CallerDone("c1")
    \/ \E w \in Enrichers : QueueWorkerPop(w)
    \/ \E w \in Enrichers : QueueWorkerFetch(w, "metadata")
    \/ \E w \in Enrichers : QueueWorkerFinish(w)
    \/ \E w \in Enrichers : QueueWorkerLoop(w)

SizesSpec == SizesInit /\ [][SizesNext]_vars

\* ------------------------------------------------ requests of the two UIs
\* The routes of web.py that work on the Download stage, and the
\* "Retry Failed" button of streamlit_ui.py, each served as one step while
\* the Downloaders work on a stage that holds n records
ItemRoutes == {"cancel_item", "retry_item"}
QueueRoutes == {"clear_items", "cancel_items", "retry_items", "get_items", "st_retry_failed"}

\* The maps a request reads or writes outside a `with <map>_lock:` block
Unlocked(op) ==
    CASE op \in {"get_items", "st_retry_failed", "st_clear_completed"} -> {}
      [] OTHER                                   -> {"download_queue"}

\* The two retry-all loops: `if item["item_status"] in ("Failed", "Cancelled"):
\* download_queue[local_id]['item_status'] = 'Waiting'`
RetryAll(q) == MapStatus(q, {"Failed", "Cancelled"}, "Waiting")

\* What the handler of a request does to the three maps
Served(op, local_id) ==
    CASE op = "cancel_item" ->
            /\ download_queue' =
                  IF HasKey(download_queue, local_id)
                  THEN SetStatus(download_queue, local_id, "Cancelled")
                  ELSE download_queue
            /\ UNCHANGED <<parsing, pending>>
      [] op = "retry_item" ->
            /\ download_queue' =
                  IF HasKey(download_queue, local_id)
                  THEN SetStatus(download_queue, local_id, "Waiting")
                  ELSE download_queue
            /\ UNCHANGED <<parsing, pending>>
      [] op \in {"clear_items", "st_clear_completed"} ->
            /\ download_queue' = SelectSeq(download_queue,
                                           LAMBDA e : e.item.item_status \notin ClearedStatuses)
            /\ UNCHANGED <<parsing, pending>>
      [] op = "cancel_items" ->
            /\ parsing' = <<>>
            /\ pending' = <<>>
            /\ download_queue' = MapStatus(download_queue, {"Waiting"}, "Cancelled")
      [] op \in {"retry_items", "st_retry_failed"} ->
            /\ download_queue' = RetryAll(download_queue)
            /\ UNCHANGED <<parsing, pending>>
      [] OTHER ->
            UNCHANGED <<parsing, pending, download_queue>>

\* A request arrives
RequestBegin(op, local_id) ==
    /\ ui = NoUi
    /\ op \in ItemRoutes => local_id \in 1..MaxKeys
    /\ op \in QueueRoutes => local_id = 0
    /\ ui' = [op |-> op, local_id |-> local_id]
    /\ UNCHANGED <<parsing, pending, download_queue, waiters, issued, pc, local, stale,
                   now, call, access, stats_file, clock, returned, config>>

\* Its handler runs
RequestEnd ==
    /\ ui # NoUi
    /\ Served(ui.op, ui.local_id)
    /\ access' = [op |-> ui.op, unlocked |-> Unlocked(ui.op)]
    /\ ui' = NoUi
    /\ UNCHANGED <<waiters, issued, pc, local, stale, now, call, stats_file, clock, returned, config>>

UiNext ==
    \/ \E w \in Downloaders : DownloadWorkerAcquire(w)
    \/ \E w \in Downloaders : DownloadWorkerStart(w)
    \/ \E w \in Downloaders, st \in FinalStatuses : DownloadWorkerFinish(w, st)
    \/ \E op \in ItemRoutes, k \in 1..MaxKeys : RequestBegin(op, k)
    \/ \E op \in QueueRoutes : RequestBegin(op, 0)
    \/ RequestEnd

UiSpec == DownloadInit /\ [][UiNext]_vars

\* ------------------------------------------------------- clear completed
\* POST /api/clear_items and the "Clear Completed" button of the Streamlit
\* page, over a Download stage whose records are in any status a record is
\* left in, beside the running Downloaders.
ClearRoutes == {"clear_items", "st_clear_completed"}

\* The statuses a record nobody holds can have
RestStatuses ==
    {"Waiting", "Failed", "Downloaded", "Already Exists", "Cancelled", "Unavailable",
     "Deleted"}

SeededStatuses(n, sts) ==
    [i \in 1..n |->
        [key |-> i,
         item |-> [DownloadItem(i, [item_id |-> Urls[i]]) EXCEPT !.item_status = sts[i]]]]

ClearInit ==
    /\ AuxInit
    /\ parsing = <<>>
    /\ pending = <<>>
    /\ \E n \in 1..MaxKeys : \E sts \in [1..n -> RestStatuses] :
          download_queue = SeededStatuses(n, sts) /\ issued = n
    /\ waiters = [s \in Stages |-> <<>>]
    /\ pc = [w \in Workers |-> IF w \in Downloaders THEN "idle" ELSE "pop"]
    /\ local = [w \in Workers |-> NoLocal]
    /\ stale = [w \in Downloaders |-> FALSE]

ClearNext ==
    \/ \E w \in Downloaders : DownloadWorkerAcquire(w)
    \/ \E w \in Downloaders : DownloadWorkerStart(w)
    \/ \E w \in Downloaders, st \in FinalStatuses : DownloadWorkerFinish(w, st)
    \/ \E op \in ClearRoutes : RequestBegin(op, 0)
    \/ RequestEnd

ClearSpec == ClearInit /\ [][ClearNext]_vars

\* ---------------------------------------------------- Throttle (stealth.py)
\* STATS_FILE is missing, holds something json.loads rejects, or holds a
\* stats dict; the wall clock gives date.today() and datetime.now().hour.
\* A write of the file is taken to succeed.
JsonFile(stats) == [kind |-> "json", data |-> stats]

\* _reset_stats()
reset_stats(c) ==
    [date |-> c.date, tracks_today |-> 0, tracks_this_hour |-> 0, hour |-> c.hour,
     session_tracks |-> 0, last_download_time |-> 0]

\* Variant: the stored date is not compared with today's
load_stats_NoDayReset(f, c) ==
    IF f.kind = "json" THEN f.data ELSE reset_stats(c)

\* Variant: the reset for a new day keeps the session counter
load_stats_KeepSession(f, c) ==
    IF f.kind = "json" /\ f.data.date = c.date
    THEN f.data
    ELSE IF f.kind = "json"
    THEN [reset_stats(c) EXCEPT !.session_tracks = f.data.session_tracks]
    ELSE reset_stats(c)

\* Variant: what a file that does not parse leaves behind is used as it is
load_stats_NoExcept(f, c) ==
    IF f.kind = "json" /\ f.data.date # c.date
    THEN reset_stats(c)
    ELSE f.data

\* _load_stats(): the stored dict when the file is there, parses and is
\* dated today, a fresh one otherwise
load_stats(f, c) ==
    IF f.kind = "json" /\ f.data.date = c.date
    THEN f.data
    ELSE reset_stats(c)

\* _save_stats(stats): the file after the write
save_stats(f, stats) == JsonFile(stats)

\* get_stealth_stats(): the dict it returns ...
StealthStats(f, c) ==
    IF load_stats(f, c).hour # c.hour
    THEN [load_stats(f, c) EXCEPT !.hour = c.hour, !.tracks_this_hour = 0]
    ELSE load_stats(f, c)

\* Variant: the hourly reset is returned and not saved
StatsFileAfter_Unsaved(f, c) == f

\* ... and the file it leaves: written only when the hour had changed
StatsFileAfter(f, c) ==
    IF load_stats(f, c).hour # c.hour
    THEN save_stats(f, StealthStats(f, c))
    ELSE f

get_stealth_stats ==
    /\ returned' = [op |-> "get_stealth_stats", value |-> StealthStats(stats_file, clock)]
    /\ stats_file' = StatsFileAfter(stats_file, clock)
    /\ UNCHANGED <<parsing, pending, download_queue, waiters, issued, pc, local, stale,
                   now, call, access, ui, clock, config>>

\* time.time() at the wall clock's reading
Stamp(c) == c.date * HoursPerDay + c.hour

\* increment_download_count(): the dict it saves and returns
Incremented_NoSession(f, c) ==
    [StealthStats(f, c) EXCEPT !.tracks_today = @ + 1,
                               !.tracks_this_hour = @ + 1,
                               !.last_download_time = Stamp(c)]
Incremented(f, c) ==
    [StealthStats(f, c) EXCEPT !.tracks_today = @ + 1,
                               !.tracks_this_hour = @ + 1,
                               !.session_tracks = @ + 1,
                               !.last_download_time = Stamp(c)]

increment_download_count ==
    /\ StealthStats(stats_file, clock).tracks_today < MaxTracks
    /\ returned' = [op |-> "increment_download_count",
                    value |-> Incremented(stats_file, clock)]
    /\ stats_file' = save_stats(StatsFileAfter(stats_file, clock),
                                Incremented(stats_file, clock))
    /\ UNCHANGED <<parsing, pending, download_queue, waiters, issued, pc, local, stale,
                   now, call, access, ui, clock, config>>

\* increment_download_count called by the Downloader threads.  stealth.py
\* takes no lock: the read of the file in get_stealth_stats and the write
\* in _save_stats are two steps of the calling thread, and the dict between
\* them is the thread's own.
Bumped(stats, c) ==
    [stats EXCEPT !.tracks_today = @ + 1,
                  !.tracks_this_hour = @ + 1,
                  !.session_tracks = @ + 1,
                  !.last_download_time = Stamp(c)]

\* `stats = get_stealth_stats()`
RecordLoad(w) ==
    /\ pc[w] = "idle"
    /\ StealthStats(stats_file, clock).tracks_today < MaxTracks
    /\ pc' = [pc EXCEPT ![w] = "counting"]
    /\ local' = [local EXCEPT ![w] =
                   [key |-> 0, item |-> StealthStats(stats_file, clock), result |-> None]]
    /\ stats_file' = StatsFileAfter(stats_file, clock)
    /\ UNCHANGED <<parsing, pending, download_queue, waiters, issued, stale,
                   now, call, access, ui, clock, returned, config>>

\* the three `+= 1`, the time stamp, `_save_stats(stats)` and the return
RecordSave(w) ==
    /\ pc[w] = "counting"
    /\ pc' = [pc EXCEPT ![w] = "idle"]
    /\ local' = [local EXCEPT ![w] = NoLocal]
    /\ stats_file' = save_stats(stats_file, Bumped(local[w].item, clock))
    /\ returned' = [op |-> "increment_download_count",
                    value |-> Bumped(local[w].item, clock)]
    /\ UNCHANGED <<parsing, pending, download_queue, waiters, issued, stale,
                   now, call, access, ui, clock, config>>

\* The wall clock moves to the next hour, or to the first hour of the next day
NextHour(c) ==
    IF c.hour + 1 < HoursPerDay
    THEN [c EXCEPT !.hour = c.hour + 1]
    ELSE [date |-> c.date + 1, hour |-> 0]

ClockTick ==
    /\ NextHour(clock).date <= MaxDays
    /\ clock' = NextHour(clock)
    /\ UNCHANGED <<parsing, pending, download_queue, waiters, issued, pc, local, stale,
                   now, call, access, ui, stats_file, returned, config>>

\* Something else than the Throttle leaves the file unreadable, or removes it
FileLost(kind) ==
    /\ kind \in {"missing", "garbage"}
    /\ stats_file' = [kind |-> kind, data |-> NoStats]
    /\ UNCHANGED <<parsing, pending, download_queue, waiters, issued, pc, local, stale,
                   now, call, access, ui, clock, returned, config>>

\* check_session_break: with stealth mode off it answers (False, 0) and opens
\* nothing; otherwise it reads the stats through get_stealth_stats and, at
\* or over the configured number of session tracks, saves them with
\* session_tracks = 0 and answers a break of the configured minutes times
\* random.uniform(0.8, 1.2), drawn here in tenths
Factors == {8, 10, 12}
NoBreak == [needs_break |-> FALSE, break_seconds |-> 0]
BreakDue_Strict(cfg, f, c) ==
    /\ cfg.stealth_mode_enabled
    /\ StealthStats(f, c).session_tracks > cfg.stealth_session_break_tracks
BreakDue(cfg, f, c) ==
    /\ cfg.stealth_mode_enabled
    /\ StealthStats(f, c).session_tracks >= cfg.stealth_session_break_tracks

break_seconds(cfg, factor) == (cfg.stealth_session_break_minutes * 60 * factor) \div 10

SessionReset(f, c) == [StealthStats(f, c) EXCEPT !.session_tracks = 0]

BreakFileAfter_Eager(cfg, f, c) ==
    IF BreakDue(cfg, f, c) THEN save_stats(StatsFileAfter(f, c), SessionReset(f, c))
    ELSE StatsFileAfter(f, c)
BreakFileAfter(cfg, f, c) ==
    IF ~cfg.stealth_mode_enabled THEN f
    ELSE IF BreakDue(cfg, f, c) THEN save_stats(StatsFileAfter(f, c), SessionReset(f, c))
    ELSE StatsFileAfter(f, c)

check_session_break(factor) ==
    /\ returned' = [op |-> "check_session_break",
                    value |-> IF BreakDue(config, stats_file, clock)
                              THEN [needs_break |-> TRUE,
                                    break_seconds |-> break_seconds(config, factor)]
                              ELSE NoBreak]
    /\ stats_file' = BreakFileAfter(config, stats_file, clock)
    /\ UNCHANGED <<parsing, pending, download_queue, waiters, issued, pc, local, stale,
                   now, call, access, ui, clock, config>>

\* can_download: (True, "") on both of its paths; it reads stealth_mode_enabled
\* and nothing else
Allowed_Capped(cfg, f, c) ==
    \/ ~cfg.stealth_mode_enabled
    \/ /\ StealthStats(f, c).tracks_this_hour < cfg.stealth_max_tracks_per_hour
       /\ StealthStats(f, c).tracks_today < cfg.stealth_max_tracks_per_day
Allowed(cfg, f, c) == IF ~cfg.stealth_mode_enabled THEN TRUE ELSE TRUE

can_download ==
    /\ returned' = [op |-> "can_download",
                    value |-> [allowed |-> Allowed(config, stats_file, clock),
                               reason |-> ""]]
    /\ UNCHANGED <<parsing, pending, download_queue, waiters, issued, pc, local, stale,
                   now, call, access, ui, stats_file, clock, config>>

\* calculate_stealth_delay: max(x, 0), float() with the fallback taken on
\* TypeError and ValueError, and the two branches of the function
AtLeastZero(x) == IF x > 0 THEN x ELSE 0
FallbackMinDelay == 30
Float(v) == IF v.kind = "number" THEN v.value ELSE FallbackMinDelay

StealthDelay_Unclamped(cfg, song_duration_ms, service) ==
    IF ~cfg.stealth_mode_enabled \/ service # "apple_music"
    THEN cfg.download_delay
    ELSE Float(cfg.stealth_min_delay)
StealthDelay_Scaled(cfg, song_duration_ms, service) ==
    IF ~cfg.stealth_mode_enabled \/ service # "apple_music"
    THEN AtLeastZero(cfg.download_delay)
    ELSE AtLeastZero(Float(cfg.stealth_min_delay)) + song_duration_ms
StealthDelay(cfg, song_duration_ms, service) ==
    IF ~cfg.stealth_mode_enabled \/ service # "apple_music"
    THEN AtLeastZero(cfg.download_delay)
    ELSE AtLeastZero(Float(cfg.stealth_min_delay))

calculate_stealth_delay(song_duration_ms, service) ==
    /\ returned' = [op |-> "calculate_stealth_delay",
                    value |-> [delay |-> StealthDelay(config, song_duration_ms, service),
                               song_duration_ms |-> song_duration_ms,
                               service |-> service]]
    /\ UNCHANGED <<parsing, pending, download_queue, waiters, issued, pc, local, stale,
                   now, call, access, ui, stats_file, clock, config>>

\* The settings are saved with other values (config.set)
ThrottleSettings ==
    [stealth_mode_enabled : BOOLEAN,
     stealth_session_break_tracks : 1..MaxTracks,
     stealth_session_break_minutes : 1..MaxMinutes,
     stealth_max_tracks_per_hour : {1},
     stealth_max_tracks_per_day : {MaxTracks}]
DelayValues == {Number(n) : n \in -1..MaxDelay} \cup {NotANumber}
DelaySettings ==
    [stealth_mode_enabled : BOOLEAN,
     download_delay : -1..MaxDelay,
     stealth_min_delay : DelayValues]

config_set(settings) ==
    /\ config' = [key \in DOMAIN config |->
                    IF key \in DOMAIN settings THEN settings[key] ELSE config[key]]
    /\ config' # config
    /\ UNCHANGED <<parsing, pending, download_queue, waiters, issued, pc, local, stale,
                   now, call, access, ui, stats_file, clock, returned>>

ThrottleNext ==
    \/ get_stealth_stats
    \/ increment_download_count
    \/ \E factor \in Factors : check_session_break(factor)
    \/ can_download
    \/ \E service \in Services : calculate_stealth_delay(0, service)
    \/ \E settings \in ThrottleSettings : config_set(settings)
    \/ ClockTick
    \/ \E kind \in {"missing", "garbage"} : FileLost(kind)

ThrottleSpec == Init /\ [][ThrottleNext]_vars

\* ------------------------------------------- recordSuccess from two threads
RecordNext ==
    \/ \E w \in Downloaders : RecordLoad(w)
    \/ \E w \in Downloaders : RecordSave(w)
    \/ ClockTick

RecordSpec == Init /\ [][RecordNext]_vars

\* The delay alone, asked for every service and song length under every
\* setting of the two delays
DelayNext ==
    \/ \E song_duration_ms \in 0..MaxDuration, service \in Services :
         calculate_stealth_delay(song_duration_ms, service)
    \/ \E settings \in DelaySettings : config_set(settings)

DelaySpec == Init /\ [][DelayNext]_vars

\* ----------------------------- acquire_next_download_item called directly
\* The function called with every combination of block and timeout by
\* threads of their own, and add_to_download_queue called beside them.

\* Variant: a blocking call also waits while no record is eligible
AcquireWaits_NoneEligible(q, block, woken) ==
    IF woken THEN AcquireIndex(q) = 0 ELSE block /\ AcquireIndex(q) = 0
\* `if not download_queue: if not block: return None` at the call, and
\* `while not download_queue:` after a wake-up
AcquireWaits(q, block, woken) == IF woken THEN WaitAgain(q) ELSE MustWait(q, block)

\* Variant: the eligible record inserted last is the one taken
AcquireTaken_Last(q) ==
    IF \E i \in 1..Len(q) : q[i].item.available # FALSE
    THEN CHOOSE i \in 1..Len(q) :
            /\ q[i].item.available # FALSE
            /\ \A j \in (i + 1)..Len(q) : q[j].item.available = FALSE
    ELSE 0
\* The record the scan stops at
AcquireTaken(q) == AcquireIndex(q)

\* `return None`
AcquireNone(w, c) ==
    /\ pc' = [pc EXCEPT ![w] = "returned"]
    /\ local' = [local EXCEPT ![w] = NoLocal]
    /\ call' = [call EXCEPT ![w] = c]
    /\ UNCHANGED <<download_queue, waiters>>

\* `item['available'] = False; return item`
AcquireItem(w, c, i) ==
    /\ download_queue' = AcquireMark(download_queue, i)
    /\ pc' = [pc EXCEPT ![w] = "returned"]
    /\ local' = [local EXCEPT ![w] = [NoLocal EXCEPT !.key = download_queue[i].key,
                                                  !.item = download_queue'[i].item]]
    /\ call' = [call EXCEPT ![w] = c]
    /\ UNCHANGED waiters

\* One pass of the function under download_queue_condition, from the call or
\* from a wake-up, up to its return or its next wait
AcquireOn(w, c) ==
    /\ IF AcquireWaits(download_queue, c.block, pc[w] = "woken")
       THEN IF Expired(c)
            THEN AcquireNone(w, c)
            ELSE PopWaits("download_queue", download_queue, w, c)
       ELSE IF AcquireTaken(download_queue) = 0
            THEN AcquireNone(w, c)
            ELSE AcquireItem(w, c, AcquireTaken(download_queue))
    /\ UNCHANGED <<parsing, pending, issued, stale, now, access, ui, stats_file, clock,
                   returned, config>>

\* A thread calls acquire_next_download_item(block, timeout)
AcquireCall(w, block, timed, timeout) ==
    /\ pc[w] = "idle"
    /\ timed => block
    /\ ~timed => timeout = 0
    /\ AcquireOn(w, Frame("download_queue", block, timed, timeout))

\* The caller is running again after a notify or after its wait timed out
AcquireResume(w) ==
    /\ pc[w] = "woken"
    /\ AcquireOn(w, call[w])

\* A thread calls add_to_download_queue with a fresh record for key k
AddCall(k) ==
    /\ issued < MaxPushes
    /\ issued' = issued + 1
    /\ add_to_download_queue(k, DownloadItem(k, [item_id |-> Urls[k]]), pc)
    /\ UNCHANGED <<parsing, pending, local, aux>>

AcquireNext ==
    \/ \E w \in Callers, block \in BOOLEAN : AcquireCall(w, block, FALSE, 0)
    \/ \E w \in Callers, timeout \in 0..MaxTimeout :
          /\ now + timeout <= MaxTime
          /\ AcquireCall(w, TRUE, TRUE, timeout)
    \/ \E w \in Callers : AcquireResume(w)
    \/ \E w \in Callers : PopTimeout(w)
    \/ \E w \in Callers : CallerDone(w)
    \/ \E k \in 1..MaxKeys : AddCall(k)
    \/ Tick

AcquireSpec == QueueInit /\ [][AcquireNext]_vars

\* The clock runs, and a caller that can run does
AcquireFairness ==
    /\ WF_vars(Tick)
    /\ \A w \in Callers :
          /\ WF_vars(PopTimeout(w))
          /\ WF_vars(AcquireResume(w))

FairAcquireSpec == AcquireSpec /\ AcquireFairness

\* ------------------------------------------------ the Pending stage alone
\* pop_next_pending_item called with every block and timeout beside the two
\* pushes of Pending, under the scheduling of FairQueueSpec
PendingNext ==
    \/ \E w \in Callers, block \in BOOLEAN : PopCall(w, "pending", block, FALSE, 0)
    \/ \E w \in Callers, timeout \in 0..MaxTimeout :
          /\ now + timeout <= MaxTime
          /\ PopCall(w, "pending", TRUE, TRUE, timeout)
    \/ \E w \in Callers : PopResume(w)
    \/ \E w \in Callers : PopTimeout(w)
    \/ \E w \in Callers : CallerDone(w)
    \/ \E fn \in {"enqueue_pending_item", "requeue_pending_item"}, k \in 1..MaxKeys :
          PushCall(fn, k)
    \/ Tick

FairPendingSpec == QueueInit /\ [][PendingNext]_vars /\ QueueFairness

\* ------------------------------------------- pushes beside blocked callers
\* The callers of the two pops and of acquire, and the pushes of the three
\* stages.  The stages share nothing, so the pops run while the Download map
\* is empty and nobody is inside acquire, and the other way round.
PopSide ==
    /\ download_queue = <<>>
    /\ \A w \in Callers : call[w].stage # "download_queue"

AcquireSide ==
    /\ parsing = <<>>
    /\ pending = <<>>
    /\ \A w \in Callers : call[w].stage \notin PopStages

NotifyNext ==
    \/ PopSide /\ QueueNext
    \/ AcquireSide /\ AcquireNext

NotifySpec == QueueInit /\ [][NotifyNext]_vars

\* ===================================================================
\* Properties
\* ===================================================================
Claimed(w) == pc[w] \in {"claimed", "transfer"}

\* acquire_next_download_item returned a record to w in this step
AcquireReturned(w) == pc[w] = "idle" /\ pc'[w] = "claimed"

\* C1: a record that acquire returns to a worker was available before the
\* call, is unavailable after it, and is held by no other worker: while
\* its flag is false no second acquire returns it.
C1_ExclusiveAcquire ==
    [][\A w \in Downloaders :
         AcquireReturned(w) =>
           LET k == local'[w].key
           IN  /\ HasKey(download_queue, k)
               /\ Lookup(download_queue, k).available # FALSE
               /\ Lookup(download_queue', k).available = FALSE
               /\ \A v \in Downloaders \ {w} : ~Holds(v, k)]_vars

\* Two workers hold claims at the same time, on two records
C1_Witness ==
    \E w, v \in Downloaders :
        /\ w # v
        /\ Claimed(w) /\ Claimed(v)
        /\ local[w].key # local[v].key
        /\ Lookup(download_queue, local[w].key).available = FALSE
        /\ Lookup(download_queue, local[v].key).available = FALSE

\* C2 (Invariant I2): for each key at most one worker holds a claim on it.
C2_OneClaimPerKey ==
    \A w, v \in Downloaders :
        (w # v /\ Claimed(w) /\ Claimed(v)) => local[w].key # local[v].key

\* C3: an entry popped from Intake or Pending is held by exactly one
\* popper and is no longer in the map it was popped from.
Popped(w) == pc[w] \in {"popped", "fetched"}

C3_PopIsTestAndRemove ==
    /\ \A w, v \in Enrichers :
          (w # v /\ Popped(w) /\ Popped(v)) => local[w].key # local[v].key
    /\ \A w \in Enrichers : Popped(w) => ~HasKey(pending, local[w].key)
    /\ \A r, t \in Resolvers :
          (r # t /\ Popped(r) /\ Popped(t)) => local[r].key # local[t].key
    /\ \A r \in Resolvers : Popped(r) => ~HasKey(parsing, local[r].key)

\* Both Enrichers hold a popped entry at once
C3_Witness == \A w \in Enrichers : Popped(w) /\ local[w].key # 0

\* C4 (Invariant I1): a key is in at most one of the three maps.
InStages(k) ==
    {s \in Stages :
        \/ s = "parsing" /\ HasKey(parsing, k)
        \/ s = "pending" /\ HasKey(pending, k)
        \/ s = "download_queue" /\ HasKey(download_queue, k)}

C4_OneStagePerKey == \A k \in 1..MaxKeys : Cardinality(InStages(k)) <= 1

\* One key is back in Pending after a failure is being handled while another
\* has reached Download
C4_Witness ==
    /\ pending # <<>>
    /\ download_queue # <<>>
    /\ \E w \in Enrichers :
          /\ pc[w] = "done"
          /\ local[w].result = "raise"
          /\ HasKey(pending, local[w].key)

\* C5: a record whose 'available' was set to False by acquire gets it back
\* (or leaves the stage), and it is the claimant's release that restores it.
Unavailable(k) ==
    HasKey(download_queue, k) /\ Lookup(download_queue, k).available = FALSE

CycleEnds(w) == pc[w] = "fetched" /\ pc'[w] = "done"

\* C6: when an Enricher cycle completes, the item it popped is in Download
\* or back in Pending, whatever the collaborator returned or raised.
C6_NoItemLost ==
    [][\A w \in Enrichers :
         CycleEnds(w) =>
            \/ HasKey(download_queue', local[w].key)
            \/ HasKey(pending', local[w].key)]_vars

\* C7: a cycle whose collaborator raised puts the item back into Pending
\* under its key, unchanged, and leaves Download alone; a cycle that got
\* metadata puts its key into Download and leaves Pending alone.
C7_FailureRequeues ==
    [][\A w \in Enrichers :
         CycleEnds(w) =>
            /\ local[w].result = "raise" =>
                  /\ HasKey(pending', local[w].key)
                  /\ Lookup(pending', local[w].key) = local[w].item
                  /\ download_queue' = download_queue
                  /\ ~HasKey(download_queue', local[w].key)
            /\ local[w].result = "metadata" =>
                  /\ HasKey(download_queue', local[w].key)
                  /\ pending' = pending]_vars

\* In one run, one cycle has failed and its item is back in Pending as
\* popped, another has succeeded and its key is in Download
C7_Witness ==
    \E w, v \in Enrichers :
        /\ pc[w] = "done" /\ local[w].result = "raise"
        /\ HasKey(pending, local[w].key)
        /\ Lookup(pending, local[w].key) = local[w].item
        /\ ~HasKey(download_queue, local[w].key)
        /\ pc[v] = "done" /\ local[v].result = "metadata"
        /\ HasKey(download_queue, local[v].key)
        /\ ~HasKey(pending, local[v].key)

\* C8: the record a successful cycle pushes is stored under the key popped
\* from Pending, carries that key as local_id, and is available, Waiting,
\* at progress 0.
C8_DownloadRecord ==
    [][\A w \in Enrichers :
         (CycleEnds(w) /\ local[w].result = "metadata") =>
            /\ HasKey(download_queue', local[w].key)
            /\ LET rec == Lookup(download_queue', local[w].key)
               IN  /\ rec.local_id = local[w].key
                   /\ rec.item_id = local[w].item.item_id
                   /\ rec.available = TRUE
                   /\ rec.item_status = "Waiting"
                   /\ rec.progress = 0
            /\ Keys(download_queue') = Keys(download_queue) \cup {local[w].key}]_vars

\* A successful cycle has just stored its record
C8_Witness ==
    \E w \in Enrichers :
        /\ pc[w] = "done" /\ local[w].result = "metadata"
        /\ HasKey(download_queue, local[w].key)
        /\ Lookup(download_queue, local[w].key).local_id = local[w].key
        /\ Lookup(download_queue, local[w].key).item_status = "Waiting"
        /\ Len(download_queue) = MaxKeys

\* C9: every record in Pending or popped from it is the record first pushed
\* under its key, requeued or not, and a requeue changes Pending exactly as
\* a push of (key, record) does.
OriginalRecord(k) == [item_id |-> Urls[k]]

C9_RequeueRoundTrip ==
    /\ [](\A i \in 1..Len(pending) : pending[i].item = OriginalRecord(pending[i].key))
    /\ [](\A w \in Enrichers :
            Popped(w) => local[w].key # 0 /\ local[w].item = OriginalRecord(local[w].key))
    /\ [][\A w \in Enrichers :
            (CycleEnds(w) /\ local[w].result = "raise") =>
                /\ pending' = SetItem(pending, local[w].key, local[w].item)
                /\ Len(waiters'.pending) = Len(AfterNotify(waiters.pending))]_vars

\* The record one Enricher requeued has been popped again by the other
C9_Witness ==
    \E w, v \in Enrichers :
        /\ pc[w] = "done" /\ local[w].result = "raise"
        /\ Popped(v)
        /\ local[v].key = local[w].key
        /\ local[v].item = local[w].item

\* C10: a blocking pop without timeout returns only an entry, the head of a
\* non-empty map; a blocked popper is released only by a push, and goes
\* back to wait when it finds the map empty again.
QueueOf(w) == IF w \in Resolvers THEN parsing ELSE pending

C10_BlockingPop ==
    /\ [](\A w \in Resolvers \cup Enrichers :
            pc[w] = "popped" => local[w].key # 0 /\ local[w].item # NoItem)
    /\ [][\A w \in Resolvers \cup Enrichers :
            /\ (pc[w] \in {"pop", "woken"} /\ pc'[w] = "popped") =>
                  /\ QueueOf(w) # <<>>
                  /\ local'[w].key = Head(QueueOf(w)).key
            /\ (pc[w] \in {"pop", "woken"} /\ QueueOf(w) = <<>>) =>
                  pc'[w] \in {pc[w], "wait"}
            /\ pc[w] = "wait" =>
                  /\ pc'[w] \in {"wait", "woken"}
                  /\ pc'[w] = "woken" => QueueOf(w)' # <<>>]_vars

\* A woken popper finds Pending emptied by the other one, which holds the entry
C10_Witness ==
    \E w, v \in Enrichers :
        /\ pc[w] = "woken"
        /\ pending = <<>>
        /\ Popped(v)

\* ------------------------------------------------ StageQueue pop contracts
\* The map the caller's pop works on, and the pop's return in this step
CallMap(w) == StageMap(call'[w].stage)

CallMapAfter(w) ==
    IF call'[w].stage = "parsing" THEN parsing' ELSE pending'

PopReturned(w) == pc[w] \in {"idle", "woken"} /\ pc'[w] = "returned"

\* C11: a pop with block=True and timeout T returns (None, None) only when
\* T has passed since the call and the map is empty at that moment; the
\* deadline is the one fixed at the call, so a woken caller that finds the
\* map empty returns at once when the deadline has passed, waits for the
\* rest of T and no longer when it has not, and takes the entry when there
\* is one; a caller waiting with a timeout always returns in the end.
C11_TimedPop ==
    /\ [](\A w \in Callers :
            (pc[w] \in {"wait", "woken"} /\ call[w].timed) =>
                call[w].deadline = call[w].entry + call[w].timeout)
    /\ [][\A w \in Callers :
            (PopReturned(w) /\ call'[w].block /\ call'[w].timed /\ local'[w].key = 0) =>
                /\ now >= call'[w].entry + call'[w].timeout
                /\ CallMap(w) = <<>>
                /\ CallMapAfter(w) = <<>>]_vars
    /\ [][\A w \in Callers :
            (pc[w] = "woken" /\ pc'[w] # "woken" /\ call[w].timed) =>
                /\ CallMap(w) # <<>> =>
                      pc'[w] = "returned" /\ local'[w].key = Head(CallMap(w)).key
                /\ (CallMap(w) = <<>> /\ now >= call[w].entry + call[w].timeout) =>
                      pc'[w] = "returned" /\ local'[w].key = 0
                /\ (CallMap(w) = <<>> /\ now < call[w].entry + call[w].timeout) =>
                      /\ pc'[w] = "wait"
                      /\ call'[w].wake = call[w].entry + call[w].timeout]_vars
    /\ \A w \in Callers : (pc[w] = "wait" /\ call[w].timed) ~> (pc[w] = "returned")

\* A timed pop has returned (None, None) after its deadline although a push
\* was made meanwhile: the other caller took the entry
C11_Witness ==
    \E w, v \in Callers :
        /\ pc[w] = "returned" /\ local[w].key = 0
        /\ call[w].timed /\ call[w].timeout = MaxTimeout
        /\ now >= call[w].deadline
        /\ pc[v] = "returned" /\ local[v].key # 0
        /\ call[v].stage = call[w].stage

\* C12: a pop with block=False on an empty map returns (None, None) in the
\* same step, joins no wait set and leaves both maps as they were.
C12_NonBlockingPop ==
    [][\A w \in Callers :
         (pc[w] = "idle" /\ pc'[w] # "idle" /\ ~call'[w].block /\ CallMap(w) = <<>>) =>
            /\ pc'[w] = "returned"
            /\ local'[w].key = 0 /\ local'[w].item = NoItem
            /\ parsing' = parsing /\ pending' = pending
            /\ waiters' = waiters]_vars

\* A non-blocking pop came back empty while the other caller is blocked in a
\* pop on the same, empty, stage
C12_Witness ==
    \E w, v \in Callers :
        /\ pc[w] = "returned" /\ ~call[w].block /\ local[w].key = 0
        /\ pc[v] = "wait" /\ call[v].stage = call[w].stage
        /\ StageMap(call[w].stage) = <<>>

\* C13: a pop on a non-empty map returns its first entry and leaves the
\* others, in their order: the map afterwards is the old one without its head.
C13_PopTakesFirst ==
    [][\A w \in Callers :
         (PopReturned(w) /\ CallMap(w) # <<>>) =>
            /\ local'[w].key = Head(CallMap(w)).key
            /\ local'[w].item = Head(CallMap(w)).item
            /\ CallMapAfter(w) = Tail(CallMap(w))
            /\ Len(CallMapAfter(w)) = Len(CallMap(w)) - 1]_vars

\* The first of two entries was popped, the second is still in the map
C13_Witness ==
    \E w \in Callers :
        /\ pc[w] = "returned" /\ local[w].key # 0
        /\ Len(StageMap(call[w].stage)) = MaxPushes - 1
        /\ \A i \in 1..Len(StageMap(call[w].stage)) :
              StageMap(call[w].stage)[i].key > local[w].key

\* ----------------------------------------------------------- push contract
StageMapAfter(stage) ==
    CASE stage = "parsing" -> parsing'
      [] stage = "pending" -> pending'
      [] OTHER             -> download_queue'

\* C14: after push(key, record) the stage maps key to record, under one
\* entry; a key that was absent makes the map one longer, the old entries
\* in place; a key that was present keeps its place, the map its length and
\* every other entry its record; the other stages are untouched.
C14_PushIsUpsert ==
    [][\A w \in Callers :
         (pc[w] = "push" /\ pc'[w] = "idle") =>
            LET stage == UpsertStage(local[w].result)
                q     == StageMap(stage)
                q2    == StageMapAfter(stage)
                k     == local[w].key
            IN  /\ Cardinality({i \in 1..Len(q2) : q2[i].key = k}) = 1
                /\ Lookup(q2, k) = local[w].item
                /\ IF HasKey(q, k)
                   THEN /\ Len(q2) = Len(q)
                        /\ \A i \in 1..Len(q) :
                              /\ q2[i].key = q[i].key
                              /\ q[i].key # k => q2[i] = q[i]
                   ELSE /\ Len(q2) = Len(q) + 1
                        /\ \A i \in 1..Len(q) : q2[i] = q[i]
                /\ \A s \in Stages \ {stage} : StageMapAfter(s) = StageMap(s)]_vars

\* In the Download stage: a full map whose first key holds the record pushed second,
\* in the place of the record the other caller had pushed first
C14_Witness ==
    \E w, v \in Callers :
        /\ pc[w] = "idle" /\ pc[v] = "idle"
        /\ local[w].key = local[v].key /\ local[w].key # 0
        /\ local[w].result = "add_to_download_queue"
        /\ local[v].result = "add_to_download_queue"
        /\ local[w].item # local[v].item
        /\ Len(download_queue) = MaxKeys
        /\ download_queue[1].key = local[w].key
        /\ download_queue[1].item = local[w].item

\* ------------------------------------------------------ Enricher exceptions
\* The positions of a running QueueWorker thread
Running == {"pop", "wait", "woken", "popped", "fetched", "done"}

\* C15: no exception of the collaborators or of the building of the record
\* ends an Enricher thread: the cycle in which it is raised ends at the loop
\* boundary like any other, and the thread then makes its next blocking pop.
C15_WorkerSurvives ==
    /\ [](\A w \in Enrichers : pc[w] \in Running)
    /\ [][\A w \in Enrichers :
            /\ (pc[w] = "fetched" /\ local[w].result \in Raised /\ pc'[w] # pc[w]) =>
                  pc'[w] = "done"
            /\ (pc[w] = "done" /\ pc'[w] # pc[w]) => pc'[w] = "pop"
            /\ (pc[w] = "pop" /\ pc'[w] # pc[w]) => pc'[w] \in {"popped", "wait"}]_vars
    /\ \A w \in Enrichers :
          (pc[w] = "done" /\ local[w].result \in Raised) ~> (pc[w] \in {"popped", "wait"})

\* One worker has handled an exception of the metadata call, the other a
\* KeyError of the record's construction; both are at the loop boundary
C15_Witness ==
    \E w, v \in Enrichers :
        /\ pc[w] = "done" /\ local[w].result = "raise"
        /\ pc[v] = "done" /\ local[v].result = "incomplete"
        /\ HasKey(pending, local[w].key)
        /\ HasKey(pending, local[v].key)

\* ----------------------------------------------------------- status enum
TerminalStatuses == {"Downloaded", "Unavailable", "Deleted"}

\* C16: a record of the Download stage whose status is Downloaded,
\* Unavailable or Deleted keeps that status for as long as it is in the stage.
C16_TerminalIsFinal ==
    [][\A k \in 1..MaxKeys :
         (/\ HasKey(download_queue, k)
          /\ Lookup(download_queue, k).item_status \in TerminalStatuses
          /\ HasKey(download_queue', k)) =>
            Lookup(download_queue', k).item_status =
                Lookup(download_queue, k).item_status]_vars

\* ------------------------------------------------------------ UI requests
\* C17: every request reads and writes the maps under their locks.
C17_AllUnderLock == access.unlocked = {}

\* The request served in this step was a retry-all
RetryServed == ui.op \in {"retry_items", "st_retry_failed"} /\ ui' = NoUi

StatsCalled ==
    /\ returned'.op = "get_stealth_stats"
    /\ clock' = clock
    /\ config' = config
    /\ stats_file' = stats_file \/ stats_file'.kind = "json"

StoredToday == stats_file.kind = "json" /\ stats_file.data.date = clock.date

\* C19: with a stats file whose date is not today's, stats() returns
\* tracks_today = 0 and today's date.
C19_DailyReset ==
    [][(StatsCalled /\ stats_file.kind = "json" /\ stats_file.data.date # clock.date) =>
         /\ returned'.value.tracks_today = 0
         /\ returned'.value.date = clock.date]_vars

\* stats() has answered 0 tracks for today over a file of an earlier day that
\* counts MaxTracks tracks
C19_Witness ==
    /\ returned.op = "get_stealth_stats"
    /\ returned.value.tracks_today = 0
    /\ returned.value.date = clock.date
    /\ stats_file.kind = "json"
    /\ stats_file.data.date < clock.date
    /\ stats_file.data.tracks_today = MaxTracks

\* C20: with a stats file of today whose hour is not the current one,
\* stats() returns tracks_this_hour = 0 and the current hour, tracks_today
\* and session_tracks as stored, and leaves the returned dict in the file.
C20_HourlyReset ==
    [][(StatsCalled /\ StoredToday /\ stats_file.data.hour # clock.hour) =>
         /\ returned'.value.tracks_this_hour = 0
         /\ returned'.value.hour = clock.hour
         /\ returned'.value.tracks_today = stats_file.data.tracks_today
         /\ returned'.value.session_tracks = stats_file.data.session_tracks
         /\ returned'.value.date = stats_file.data.date
         /\ stats_file' = JsonFile(returned'.value)]_vars

\* stats() has reset the hour's count of a day that already counts
\* MaxTracks tracks, and the file holds what it returned
C20_Witness ==
    /\ returned.op = "get_stealth_stats"
    /\ returned.value.tracks_this_hour = 0
    /\ returned.value.tracks_today = MaxTracks
    /\ returned.value.session_tracks = MaxTracks
    /\ returned.value.hour = clock.hour
    /\ returned.value.date = clock.date
    /\ stats_file = JsonFile(returned.value)

\* This step is a call of increment_download_count (a lost file is not JSON,
\* and the other calls leave their own name in `returned`)
IncrementCalled ==
    /\ returned'.op = "increment_download_count"
    /\ clock' = clock
    /\ config' = config
    /\ stats_file'.kind = "json"

StoredNow == StoredToday /\ stats_file.data.hour = clock.hour

\* C21: over a stats file of the current day and hour, recordSuccess() adds
\* exactly 1 to tracks_today, tracks_this_hour and session_tracks, stamps
\* last_download_time, and leaves the result in the file; a stats() that
\* follows in the same hour returns these counters.
C21_IncrementByOne ==
    /\ [][(IncrementCalled /\ StoredNow) =>
            /\ returned'.value.tracks_today = stats_file.data.tracks_today + 1
            /\ returned'.value.tracks_this_hour = stats_file.data.tracks_this_hour + 1
            /\ returned'.value.session_tracks = stats_file.data.session_tracks + 1
            /\ returned'.value.last_download_time = Stamp(clock)
            /\ returned'.value.date = clock.date
            /\ returned'.value.hour = clock.hour
            /\ stats_file' = JsonFile(returned'.value)]_vars
    /\ [][(StatsCalled /\ StoredNow /\ returned.op = "increment_download_count"
             /\ returned.value = stats_file.data) =>
            returned'.value = returned.value]_vars

\* Two downloads were counted in one hour, the second over a file that held
\* the first, and the file holds what the second call returned
C21_Witness ==
    /\ returned.op = "increment_download_count"
    /\ returned.value.tracks_today = 2
    /\ returned.value.tracks_this_hour = 2
    /\ returned.value.session_tracks = 2
    /\ returned.value.hour = clock.hour
    /\ returned.value.date = clock.date
    /\ stats_file = JsonFile(returned.value)

\* This step is a call of check_session_break
BreakCalled ==
    /\ returned'.op = "check_session_break"
    /\ clock' = clock
    /\ config' = config
    /\ stats_file' = stats_file \/ stats_file'.kind = "json"

\* What checkSessionBreak() owes over a file of today: at or over the
\* threshold a break of 0.8 to 1.2 times the configured minutes and a file
\* with session_tracks 0 and the day's count kept; under it, no break, and in
\* the hour of the file no write
BreakAnswer ==
    IF stats_file.data.session_tracks >= config.stealth_session_break_tracks
    THEN /\ returned'.value.needs_break
         /\ 10 * returned'.value.break_seconds >= 8 * config.stealth_session_break_minutes * 60
         /\ 10 * returned'.value.break_seconds <= 12 * config.stealth_session_break_minutes * 60
         /\ stats_file'.kind = "json"
         /\ stats_file'.data.session_tracks = 0
         /\ stats_file'.data.tracks_today = stats_file.data.tracks_today
    ELSE /\ returned'.value = NoBreak
         /\ StoredNow => stats_file' = stats_file

Persisted == stats_file' # stats_file /\ stats_file'.kind = "json"

\* C23 (as the code has it): the stats file is written by recordSuccess(),
\* by stats() when the stored hour is not the current one, and by
\* checkSessionBreak() with stealth mode on when the stored hour is not the
\* current one or session_tracks has reached the threshold; canProceed() and
\* delay() never write it.
C23_WhoPersists ==
    [][Persisted =>
         \/ IncrementCalled
         \/ StatsCalled /\ StoredToday /\ stats_file.data.hour # clock.hour
         \/ /\ BreakCalled /\ StoredToday /\ config.stealth_mode_enabled
            /\ \/ stats_file.data.hour # clock.hour
               \/ stats_file.data.session_tracks >= config.stealth_session_break_tracks]_vars

\* checkSessionBreak() answered no break and stored the reset of the hour's
\* count of a day whose tracks were downloaded in an earlier hour
C23_Witness ==
    /\ returned.op = "check_session_break"
    /\ returned.value = NoBreak
    /\ config.stealth_mode_enabled
    /\ stats_file.kind = "json"
    /\ stats_file.data.date = clock.date
    /\ stats_file.data.hour = clock.hour
    /\ stats_file.data.tracks_this_hour = 0
    /\ stats_file.data.tracks_today > 0
    /\ stats_file.data.last_download_time < Stamp(clock)

\* C23 as stated: the stats file is written only by recordSuccess().
C23_AsStated == [][Persisted => IncrementCalled]_vars

\* This step is a call of can_download
CanDownloadCalled ==
    /\ returned'.op = "can_download"
    /\ clock' = clock
    /\ config' = config
    /\ stats_file' = stats_file \/ stats_file'.kind = "json"

\* C24: canProceed() answers 'allowed' on every call, whatever the counters,
\* the caps and the stealth mode setting, and leaves the stats file as it is.
C24_AlwaysAllowed ==
    [][CanDownloadCalled =>
         /\ returned'.value.allowed
         /\ stats_file' = stats_file]_vars

\* canProceed() has allowed a download with stealth mode on and both counters
\* of the current hour and day at or over their caps
C24_Witness ==
    /\ returned.op = "can_download"
    /\ returned.value.allowed
    /\ config.stealth_mode_enabled
    /\ StoredNow
    /\ stats_file.data.tracks_this_hour >= config.stealth_max_tracks_per_hour
    /\ stats_file.data.tracks_today >= config.stealth_max_tracks_per_day

\* C25: delay() never returns a negative duration, whatever the stealth mode
\* setting, the service and the two configured delays, negative ones included.
C25_DelayNotNegative ==
    returned.op = "calculate_stealth_delay" => returned.value.delay >= 0

\* delay() has answered 0 for the paced service with stealth mode on and both
\* configured delays negative
C25_Witness ==
    /\ returned.op = "calculate_stealth_delay"
    /\ returned.value.service = "apple_music"
    /\ returned.value.delay = 0
    /\ config.stealth_mode_enabled
    /\ config.stealth_min_delay = Number(-1)
    /\ config.download_delay = -1

\* This step is a call of calculate_stealth_delay
DelayCalled ==
    /\ returned'.op = "calculate_stealth_delay"
    /\ config' = config

\* C26: delay() returns the configured stealth minimum delay, or 0 if that is
\* negative, exactly when stealth mode is on and the service is apple_music
\* (FallbackMinDelay when the setting is no number), and the configured
\* download delay, or 0 if that is negative, in every other case: a function
\* of the settings and the service alone, so the same for every song duration
\* and on every call under the same settings.
C26_DelayValue ==
    [][DelayCalled =>
         returned'.value.delay =
            IF config.stealth_mode_enabled /\ returned'.value.service = "apple_music"
            THEN IF config.stealth_min_delay.kind # "number" THEN FallbackMinDelay
                 ELSE IF config.stealth_min_delay.value < 0 THEN 0
                 ELSE config.stealth_min_delay.value
            ELSE IF config.download_delay < 0 THEN 0
                 ELSE config.download_delay]_vars

\* delay() has answered the stealth minimum delay, which is not the download
\* delay, for the longest song of the paced service
C26_Witness ==
    /\ returned.op = "calculate_stealth_delay"
    /\ returned.value.service = "apple_music"
    /\ returned.value.song_duration_ms = MaxDuration
    /\ returned.value.delay = 1
    /\ config.stealth_mode_enabled
    /\ config.stealth_min_delay = Number(1)
    /\ config.download_delay = 2

\* ----------------------------------------------------- acquire contracts
\* Caller w is inside acquire_next_download_item in this step: it calls it or
\* resumes it, and waits or returns
AcquireStep(w) ==
    /\ pc[w] \in {"idle", "woken"}
    /\ pc'[w] \in {"wait", "returned"}
    /\ call'[w].stage = "download_queue"

Eligible(q, i) == q[i].item.available # FALSE

\* C27: with at least one record whose 'available' is not false, a returning
\* acquire hands out the first such record in iteration order with its
\* 'available' set to false, and changes nothing else in the map.
C27_AcquireFirstEligible ==
    [][\A w \in Callers :
         (AcquireStep(w) /\ \E i \in 1..Len(download_queue) : Eligible(download_queue, i)) =>
            \E i \in 1..Len(download_queue) :
               /\ Eligible(download_queue, i)
               /\ \A j \in 1..(i - 1) : ~Eligible(download_queue, j)
               /\ pc'[w] = "returned"
               /\ local'[w].key = download_queue[i].key
               /\ local'[w].item = [download_queue[i].item EXCEPT !.available = FALSE]
               /\ Len(download_queue') = Len(download_queue)
               /\ download_queue'[i] = [key |-> download_queue[i].key, item |-> local'[w].item]
               /\ \A j \in 1..Len(download_queue) : j # i => download_queue'[j] = download_queue[j]
               /\ waiters' = waiters]_vars

\* A caller holds the second record of the map, taken while the first one
\* was claimed
C27_Witness ==
    \E w \in Callers :
        /\ pc[w] = "returned"
        /\ call[w].stage = "download_queue"
        /\ Len(download_queue) = 2
        /\ local[w].key = download_queue[2].key
        /\ download_queue[1].item.available = FALSE
        /\ download_queue[2].item.available = FALSE

\* C28: acquire waits only over an empty map and only when called with
\* block; over a map that holds records, all of them claimed, it returns None
\* at once, block or not, and changes nothing; a wait with a timeout ends.
C28_WaitsOnlyWhenEmpty ==
    /\ [][\A w \in Callers :
            (AcquireStep(w) /\ pc'[w] = "wait") =>
               (download_queue = <<>> /\ call'[w].block)]_vars
    /\ [][\A w \in Callers :
            (/\ AcquireStep(w)
             /\ download_queue # <<>>
             /\ \A i \in 1..Len(download_queue) : ~Eligible(download_queue, i)) =>
               /\ pc'[w] = "returned"
               /\ local'[w].key = 0
               /\ download_queue' = download_queue
               /\ waiters' = waiters]_vars
    /\ \A w \in Callers :
          (pc[w] = "wait" /\ call[w].stage = "download_queue" /\ call[w].timed)
             ~> (pc[w] = "returned")

\* A blocking call without timeout has returned None over a map whose two
\* records are both claimed
C28_Witness ==
    \E w \in Callers :
        /\ pc[w] = "returned"
        /\ call[w].stage = "download_queue"
        /\ call[w].block /\ ~call[w].timed
        /\ local[w].key = 0
        /\ Len(download_queue) = 2
        /\ \A i \in 1..2 : download_queue[i].item.available = FALSE

\* ------------------------------------------------------- notify contracts
\* The callers blocked in Condition.wait()
Blocked == {w \in Callers : pc[w] = "wait"}

\* C29: a push wakes exactly one of the callers blocked on its stage when
\* there is one, and nobody otherwise; every other blocked caller stays in
\* its wait.  (The callers use one stage at a time, so the blocked callers
\* are those of the stage pushed.)
C29_SingleNotify ==
    [][issued' = issued + 1 =>
         /\ Blocked # {} => Cardinality({w \in Blocked : pc'[w] = "woken"}) = 1
         /\ \A w \in Callers : (pc'[w] = "woken" /\ pc[w] # "woken") => w \in Blocked
         /\ \A w \in Blocked :
               pc'[w] # "woken" =>
                  /\ pc'[w] = "wait"
                  /\ call'[w] = call[w]
                  /\ \E i \in 1..Len(waiters'[call[w].stage]) :
                        waiters'[call[w].stage][i] = w]_vars

\* After a push on the Download stage one caller of acquire has been woken
\* and the other is still in its wait, neither with a timeout
C29_Witness ==
    \E w, v \in Callers :
        /\ pc[w] = "woken" /\ pc[v] = "wait"
        /\ call[w].stage = "download_queue" /\ call[v].stage = "download_queue"
        /\ ~call[w].timed /\ ~call[v].timed
        /\ download_queue # <<>>

\* Caller w is blocked in a pop of the stage without a timeout
BlockedOn(w, stage) == pc[w] = "wait" /\ call[w].stage = stage /\ ~call[w].timed

\* A pop of the stage has returned an entry to its caller
PopTook(stage) ==
    \E v \in Callers : pc[v] = "returned" /\ call[v].stage = stage /\ local[v].key # 0

\* A caller is blocked on Pending without a timeout while Pending holds an entry
Stranded(w) == BlockedOn(w, "pending") /\ pending # <<>>

\* C30: under fair scheduling, whenever Pending holds an entry while a caller
\* is blocked in a pop on it (and no pop has just returned), a pop returns an
\* entry later on, and the caller does not stay blocked for ever over a map
\* that stays non-empty; in every such state another caller has been woken
\* and has not run yet.
C30_NoStranding ==
    /\ ((\E w \in Callers : Stranded(w)) /\ ~PopTook("pending")) ~> PopTook("pending")
    /\ \A w \in Callers : Stranded(w) ~> ~Stranded(w)
    /\ [](\A w \in Callers :
             Stranded(w) => \E v \in Callers : pc[v] = "woken" /\ call[v].stage = "pending")

\* A caller is blocked on Pending without a timeout while Pending holds an
\* entry: the push woke the other caller, which has not run yet
C30_Witness ==
    \E w, v \in Callers :
        /\ Stranded(w)
        /\ pc[v] = "woken" /\ call[v].stage = "pending" /\ ~call[v].timed

\* ------------------------------------------------------- retry contracts
BrokenPending(k) == HasKey(pending, k) /\ IsBroken(Lookup(pending, k))

ReadsStage(c, stage) ==
    /\ pc'[c] # pc[c]
    /\ \/ stage = "parsing" /\ pc'[c] = "parsing_read"
       \/ stage = "pending" /\ pc'[c] = "pending_read"
       \/ stage = "download_queue" /\ pc[c] = "pending_read" /\ pc'[c] = "returned"

\* C32: each of the three values get_queue_sizes returns is the length its
\* stage has at the step that reads it, the values read earlier in the call
\* are kept, and no step of the call changes a stage or its wait set.  The
\* three reads are three steps: the workers run between them.
C32_SizesPerStage ==
    [][\A c \in Callers : \A stage \in Stages :
         ReadsStage(c, stage) =>
            /\ local'[c].item[stage] = Len(StageMap(stage))
            /\ \A other \in Stages \ {stage} :
                  local'[c].item[other] =
                     IF pc[c] = "idle" THEN 0 ELSE local[c].item[other]
            /\ parsing' = parsing
            /\ pending' = pending
            /\ download_queue' = download_queue
            /\ waiters' = waiters]_vars

\* get_queue_sizes has returned 1 for Pending and 1 for Download although
\* one item only was ever submitted: it moved between the two reads
C32_Witness ==
    \E c \in Callers :
        /\ pc[c] = "returned"
        /\ local[c].result = "get_queue_sizes"
        /\ issued = 1
        /\ local[c].item.pending = 1
        /\ local[c].item.download_queue = 1

\* get_queue_sizes has returned 0 for every stage while an Enricher held the
\* one item between its pop and its push
C32_NotCounted ==
    \E c \in Callers : \E w \in Enrichers :
        /\ pc[c] = "returned"
        /\ local[c].result = "get_queue_sizes"
        /\ local[c].item = NoSizes
        /\ issued = 1
        /\ pc[w] \in {"popped", "fetched"}

\* ----------------------------------------------------- order across stages
\* Keys of a map in its iteration order
KeysOf(q) == [i \in 1..Len(q) |-> q[i].key]

Increasing(ks) == \A i, j \in 1..Len(ks) : i < j => ks[i] < ks[j]

\* An Enricher other than q1 has been started
SeveralEnrichers == \E w \in Enrichers \ {"q1"} : pc[w] # "off"

\* An item whose enrichment raises is in Pending or in the hands of a worker
SomeFailure ==
    \/ \E i \in 1..Len(pending) : IsBroken(pending[i].item)
    \/ \E w \in Enrichers : local[w].key # 0 /\ IsBroken(local[w].item)

\* C33: a record enters Download at the end of the map, at the step in which
\* its own worker finishes the enrichment, whatever its key: the order of
\* Download is the order in which the workers finish, and with two workers
\* that order can differ from the order of the keys in Pending.
C33_CompletionOrder ==
    [][\A w \in Enrichers :
         (CycleEnds(w) /\ local[w].result = "metadata") =>
            /\ ~HasKey(download_queue, local[w].key)
            /\ KeysOf(download_queue') = Append(KeysOf(download_queue), local[w].key)]_vars

\* Keys 1 and 2 entered Pending in that order, no enrichment fails, and
\* the record of key 2 is in Download before the record of key 1
C33_Witness ==
    /\ SeveralEnrichers
    /\ ~SomeFailure
    /\ KeysOf(download_queue) = <<2, 1>>

\* C34: with one Enricher and no failing enrichment the records of Download
\* are in the order in which their keys were inserted into Pending.
C34_SingleWorkerOrder ==
    (~SeveralEnrichers /\ ~SomeFailure) =>
        /\ Increasing(KeysOf(download_queue))
        /\ Increasing(KeysOf(pending))
        /\ \A i \in 1..Len(download_queue) : \A j \in 1..Len(pending) :
              download_queue[i].key < pending[j].key

\* One Enricher has moved keys 1 and 2 from Pending to Download
C34_Witness ==
    /\ ~SeveralEnrichers
    /\ ~SomeFailure
    /\ pending = <<>>
    /\ KeysOf(download_queue) = <<1, 2>>

GoodPending(k) == HasKey(pending, k) /\ ~IsBroken(Lookup(pending, k))

\* C35: a requeue leaves the entries of Pending as they are and puts the
\* failed item behind all of them; and every Pending item whose enrichment
\* succeeds reaches Download, whatever failing items are in Pending with it.
C35_NoStarvation ==
    /\ [][\A w \in Enrichers :
            (CycleEnds(w) /\ local[w].result = "raise") =>
               /\ Len(pending') = Len(pending) + 1
               /\ SubSeq(pending', 1, Len(pending)) = pending
               /\ pending'[Len(pending')].key = local[w].key]_vars
    /\ \A k \in 1..MaxKeys : GoodPending(k) ~> HasKey(download_queue, k)

\* The failing item of key 1 has been requeued and popped again while the
\* item of key 2, submitted after it, has its record in Download
C35_Witness ==
    \E w \in Enrichers :
        /\ pc[w] = "popped"
        /\ local[w].key = 1
        /\ IsBroken(local[w].item)
        /\ HasKey(download_queue, 2)
        /\ ~SeveralEnrichers

\* ------------------------------------------------- fairness of the claim
WaitingRecord(k) ==
    /\ HasKey(download_queue, k)
    /\ Lookup(download_queue, k).item_status = "Waiting"
    /\ Lookup(download_queue, k).available = TRUE

\* C36: every record that is in Download with status Waiting and available
\* is eventually returned by acquire_next_download_item to some Downloader.
C36_EveryRecordAcquired ==
    \A k \in 1..MaxKeys : WaitingRecord(k) ~> (\E w \in Downloaders : Holds(w, k))

\* ------------------------------------------------- concurrent recordSuccess
\* Worker w completes its increment_download_count in this step, having
\* read the stats in the hour that the file and the clock still show
RecordCompletes(w) ==
    /\ pc[w] = "counting"
    /\ pc'[w] = "idle"
    /\ StoredNow
    /\ local[w].item.date = clock.date
    /\ local[w].item.hour = clock.hour

\* C37: each recordSuccess() that completes leaves the persisted
\* tracks_today, tracks_this_hour and session_tracks larger by exactly 1 than
\* they were before its write, whatever the other workers do meanwhile; n
\* completed calls then make n increments.
C37_NoLostIncrement ==
    [][\A w \in Downloaders :
         RecordCompletes(w) =>
            /\ stats_file'.data.tracks_today = stats_file.data.tracks_today + 1
            /\ stats_file'.data.tracks_this_hour = stats_file.data.tracks_this_hour + 1
            /\ stats_file'.data.session_tracks = stats_file.data.session_tracks + 1]_vars

\* ---------------------------------------------------- counters of the day
Ordered(stats) ==
    /\ 0 <= stats.tracks_this_hour
    /\ stats.tracks_this_hour <= stats.tracks_today
    /\ 0 <= stats.session_tracks
    /\ stats.session_tracks <= stats.tracks_today

\* C38: in the stats the file holds, and in the stats that stats() and
\* recordSuccess() return, 0 <= tracks_this_hour <= tracks_today and
\* 0 <= session_tracks <= tracks_today.
C38_CountersOrdered ==
    /\ stats_file.kind = "json" => Ordered(stats_file.data)
    /\ returned.op \in {"get_stealth_stats", "increment_download_count"} =>
          Ordered(returned.value)

\* After a session break and an hour change a download was recorded: the
\* day's counter is ahead of the hour's and of the session's
C38_Witness ==
    /\ stats_file.kind = "json"
    /\ stats_file.data.date = clock.date
    /\ stats_file.data.tracks_today = 2
    /\ stats_file.data.tracks_this_hour = 1
    /\ stats_file.data.session_tracks = 1
    /\ clock.date > 1

FreshStats ==
    [date |-> clock.date, tracks_today |-> 0, tracks_this_hour |-> 0,
     hour |-> clock.hour, session_tracks |-> 0, last_download_time |-> 0]

\* C40: with the stats file missing or holding something that cannot be read
\* as JSON, stats() can be called, returns today's date, the current hour
\* and every counter at 0, and leaves the file as it is.
C40_FreshOnBadFile ==
    /\ [](stats_file.kind # "json" => ENABLED get_stealth_stats)
    /\ [][(StatsCalled /\ stats_file.kind # "json") =>
            /\ returned'.value = FreshStats
            /\ stats_file' = stats_file]_vars

\* stats() has answered with a fresh state over an unreadable file, later
\* than the first hour of the first day
C40_Witness ==
    /\ stats_file.kind = "garbage"
    /\ returned.op = "get_stealth_stats"
    /\ returned.value = FreshStats
    /\ clock.hour > 0
    /\ clock.date > 1

\* ------------------------------------------------------- clear completed
\* The handler of a clear-completed request runs in this step
ClearServed == ui.op \in ClearRoutes /\ ui' = NoUi

Kept(e) == e.item.item_status \in {"Waiting", "Downloading", "Failed"}

Removed(e) ==
    e.item.item_status \in {"Downloaded", "Already Exists", "Cancelled", "Unavailable",
                            "Deleted"}

C39_Streamlit ==
    /\ access.op = "st_clear_completed"
    /\ download_queue = <<>>
    /\ issued = 2

====
